---- MODULE Spec2Model ----
(***************************************************************************)
(* Today Desk: the scheduling/parsing core of the day planner.             *)
(*                                                                         *)
(* Text is modelled as a sequence of one-character strings, so that the    *)
(* regular expressions, trim, split and parseInt of the source are         *)
(* computed character by character.                                       *)
(***************************************************************************)
EXTENDS Integers, Sequences, FiniteSets, TLC

VARIABLES
    calendarRaw,        \* useState<string>: the calendar text
    lineSrc,            \* ghost: how each line of calendarRaw was written
    workStartMinutes,   \* useState<number>
    workEndMinutes,     \* useState<number>
    events,             \* useState<ParsedEvent[]>
    freeSlots,          \* useMemo: computeFreeSlots(events, workStart, workEnd)
    tasks,              \* useState<ParsedTask[]>
    planBlocks,         \* useState<PlannedBlock[]>
    unscheduled,        \* useState<ParsedTask[]>
    timeText,           \* argument of parseTimeToMinutes
    timeResult,         \* its result
    totalMinutes,       \* argument of minutesToLabel
    label,              \* its result
    phase,              \* "input" before the function under study ran (the page:
                        \* before its first commit), "done" after, "failed" once
                        \* a render of the page has thrown
    dayType,            \* useState<DayType>
    now,                \* useState<Date | null>, as a minute of the day
    clock,              \* the time of the browser, new Date(), as a minute of the day
    quickTask,          \* useState<string>
    daySummary,         \* useState<string>
    reminderTimersRef,  \* useRef<number[]>: the timers that are pending
    storage,            \* localStorage item "today-desk-v1"
    overloadMessage,    \* useMemo: the message under the plan
    savedTasks,         \* ghost: <<the tasks handed to the last setItem>>, or <<>>
    fired,              \* ghost: the blocks whose reminder fired in the last step
    lastEvent,          \* ghost: the last handler run, and whether a plan stood then
    steps               \* ghost: the number of user events so far

vars == <<calendarRaw, lineSrc, workStartMinutes, workEndMinutes, events,
          freeSlots, tasks, planBlocks, unscheduled, timeText, timeResult,
          totalMinutes, label, phase, dayType, now, clock, quickTask, daySummary,
          reminderTimersRef, storage, overloadMessage, savedTasks, fired,
          lastEvent, steps>>

(***************************************************************************)
(* Bounds of the model                                                     *)
(***************************************************************************)
MaxTimeLen == 5
MaxMinutes == 200
MaxT == 4
MaxEvents == 3
MaxLines == 3
MaxTasks == 3
MaxSteps == 3

(***************************************************************************)
(* Characters and strings                                                  *)
(***************************************************************************)
Digits == <<"0", "1", "2", "3", "4", "5", "6", "7", "8", "9">>

DigitChars == {Digits[d] : d \in 1..10}

IsDigit(c) == c \in DigitChars

\* value of a decimal digit character
DigitValue(c) == (CHOOSE d \in 1..10 : Digits[d] = c) - 1

\* white space of String.prototype.trim and of the regular expression class \s
WhiteSpace == {" ", "\t", "\r", "\n"}

IsSpace(c) == c \in WhiteSpace

\* characters the regular expression dot does not match
LineTerminators == {"\n", "\r"}

\* String.prototype.trim
RECURSIVE TrimLeft(_)
TrimLeft(s) ==
    IF s # <<>> /\ IsSpace(Head(s)) THEN TrimLeft(Tail(s)) ELSE s

RECURSIVE TrimRight(_)
TrimRight(s) ==
    IF s # <<>> /\ IsSpace(s[Len(s)]) THEN TrimRight(SubSeq(s, 1, Len(s) - 1)) ELSE s

Trim(s) == TrimRight(TrimLeft(s))

\* parseInt(s, 10) of a non-empty string of decimal digits
RECURSIVE ParseInt(_)
ParseInt(s) ==
    IF s = <<>> THEN 0
    ELSE ParseInt(SubSeq(s, 1, Len(s) - 1)) * 10 + DigitValue(s[Len(s)])

\* Number.prototype.toString of a natural number, as in a template literal
RECURSIVE NumberToString(_)
NumberToString(n) ==
    IF n < 10 THEN <<Digits[n + 1]>>
    ELSE NumberToString(n \div 10) \o <<Digits[(n % 10) + 1]>>

(***************************************************************************)
(* parseTimeToMinutes                                                      *)
(***************************************************************************)
\* the value null; every number parseTimeToMinutes returns is >= 0
Null == -1

\* a failed String.prototype.match
NoMatch == <<>>

\* /^(\d{1,2}):(\d{2})$/ : the two captures, or NoMatch
TimeMatch(s) ==
    LET fits(k) == /\ Len(s) = k + 3
                   /\ \A i \in 1..k : IsDigit(s[i])
                   /\ s[k + 1] = ":"
                   /\ IsDigit(s[k + 2])
                   /\ IsDigit(s[k + 3])
    IN  IF \E k \in 1..2 : fits(k)
        THEN LET k == CHOOSE k \in 1..2 : fits(k)
             IN  <<SubSeq(s, 1, k), SubSeq(s, k + 2, k + 3)>>
        ELSE NoMatch

\* the range check of parseTimeToMinutes with an off-by-one hour bound
TimeInRangeLax(hours, minutes) ==
    ~(hours < 0 \/ hours > 24 \/ minutes < 0 \/ minutes > 59)

TimeInRange(hours, minutes) ==
    ~(hours < 0 \/ hours > 23 \/ minutes < 0 \/ minutes > 59)

parseTimeToMinutes(value) ==
    LET trimmed == Trim(value)
        match   == TimeMatch(trimmed)
    IN  IF trimmed = <<>> THEN Null
        ELSE IF match = NoMatch THEN Null
        ELSE LET hours   == ParseInt(match[1])
                 minutes == ParseInt(match[2])
             IN  IF ~TimeInRange(hours, minutes) THEN Null
                 ELSE hours * 60 + minutes

(***************************************************************************)
(* Specification of parseTimeToMinutes over every short string             *)
(***************************************************************************)
TimeAlphabet == {"0", "2", "3", "4", "6", ":", " ", "a"}

TimeTexts == UNION {[1..n -> TimeAlphabet] : n \in 0..MaxTimeLen}

\* the variables of each function under study, at rest
PageIdle ==
    /\ calendarRaw = <<>>
    /\ lineSrc = <<>>
    /\ workStartMinutes = 540
    /\ workEndMinutes = 1020
    /\ events = <<>>
    /\ freeSlots = <<>>
    /\ tasks = <<>>
    /\ planBlocks = <<>>
    /\ unscheduled = <<>>

TimeIdle ==
    /\ timeText = <<>>
    /\ timeResult = Null

LabelIdle ==
    /\ totalMinutes = 0
    /\ label = <<>>

DeskIdle ==
    /\ dayType = "workday"
    /\ now = Null
    /\ clock = Null
    /\ quickTask = <<>>
    /\ daySummary = <<>>
    /\ reminderTimersRef = <<>>
    /\ storage = [t |-> "absent"]
    /\ overloadMessage = <<>>
    /\ savedTasks = <<>>
    /\ fired = <<>>
    /\ lastEvent = <<"none", FALSE>>
    /\ steps = 0

pageVars == <<calendarRaw, lineSrc, workStartMinutes, workEndMinutes, events,
              freeSlots, tasks, planBlocks, unscheduled>>

timeVars == <<timeText, timeResult>>

labelVars == <<totalMinutes, label>>

deskVars == <<dayType, now, clock, quickTask, daySummary, reminderTimersRef, storage,
              overloadMessage, savedTasks, fired, lastEvent, steps>>

TimeInit ==
    /\ DeskIdle
    /\ PageIdle
    /\ LabelIdle
    /\ timeText \in TimeTexts
    /\ timeResult = Null
    /\ phase = "input"

ParseTime ==
    /\ phase = "input"
    /\ timeResult' = parseTimeToMinutes(timeText)
    /\ phase' = "done"
    /\ UNCHANGED <<deskVars, pageVars, labelVars, timeText>>

TimeNext == ParseTime

SpecTime == TimeInit /\ [][TimeNext]_vars

(***************************************************************************)
(* C8 parseTimeToMinutes accepts exactly H:MM and HH:MM                    *)
(***************************************************************************)
\* n written with two digits
TwoDigits(n) == <<Digits[(n \div 10) + 1], Digits[(n % 10) + 1]>>

\* every text of the shape H:MM or HH:MM with hour 0..23 and minute 0..59,
\* paired with hour*60+minute
ClockTexts ==
    {<<NumberToString(h) \o <<":">> \o TwoDigits(m), h * 60 + m>> :
        h \in 0..23, m \in 0..59}
    \cup
    {<<TwoDigits(h) \o <<":">> \o TwoDigits(m), h * 60 + m>> :
        h \in 0..23, m \in 0..59}

\* s without its leading and trailing white space
Core(s) ==
    LET idx   == {i \in 1..Len(s) : s[i] \notin WhiteSpace}
        first == CHOOSE i \in idx : \A j \in idx : i <= j
        last  == CHOOSE i \in idx : \A j \in idx : j <= i
    IN  IF idx = {} THEN <<>> ELSE [i \in 1..(last - first + 1) |-> s[first + i - 1]]

\* the value the claim gives to text s: hour*60+minute, or Null
ClockValue(s) ==
    LET c == Core(s)
    IN  IF Len(c) \in {4, 5} /\ c[Len(c) - 2] = ":"
           /\ \E p \in ClockTexts : p[1] = c
        THEN (CHOOSE p \in ClockTexts : p[1] = c)[2]
        ELSE Null

\* C8: parseTimeToMinutes returns hour*60+minute exactly when the trimmed
\* input has the shape H:MM or HH:MM with hour in 0..23 and minute in 0..59,
\* and null for every other input; every returned number lies in 0..1439.
C8_ParseTimeExact ==
    phase = "done" =>
        /\ timeResult = ClockValue(timeText)
        /\ timeResult = Null \/ timeResult \in 0..1439

\* a padded one-digit-hour time was parsed
C8_Witness ==
    /\ phase = "done"
    /\ timeText = <<" ", "2", ":", "3", "0">>
    /\ timeResult = 150

(***************************************************************************)
(* minutesToLabel                                                          *)
(***************************************************************************)
\* the branches of minutesToLabel without the whole-hour case
LabelNoWholeHours(h, m) ==
    IF h = 0 THEN NumberToString(m) \o <<"m">>
    ELSE NumberToString(h) \o <<"h", " ">> \o NumberToString(m) \o <<"m">>

LabelOf(h, m) ==
    IF h = 0 THEN NumberToString(m) \o <<"m">>
    ELSE IF m = 0 THEN NumberToString(h) \o <<"h">>
    ELSE NumberToString(h) \o <<"h", " ">> \o NumberToString(m) \o <<"m">>

\* for totalMinutes >= 0, where Math.floor(x / 60) and x % 60 are \div and %
minutesToLabel(n) ==
    LET h == n \div 60
        m == n % 60
    IN  LabelOf(h, m)

LabelInit ==
    /\ DeskIdle
    /\ PageIdle
    /\ TimeIdle
    /\ totalMinutes \in 0..MaxMinutes
    /\ label = <<>>
    /\ phase = "input"

FormatLabel ==
    /\ phase = "input"
    /\ label' = minutesToLabel(totalMinutes)
    /\ phase' = "done"
    /\ UNCHANGED <<deskVars, pageVars, timeVars, totalMinutes>>

LabelNext == FormatLabel

SpecLabel == LabelInit /\ [][LabelNext]_vars

\* C9 as claimed: 0 is "0m", whole hours are "Nh", and every other value is
\* "Nh Mm" with N = floor(n/60) and M = n mod 60.
C9_AsClaimed ==
    phase = "done" =>
        label = IF totalMinutes = 0 THEN <<"0", "m">>
                ELSE IF totalMinutes % 60 = 0
                     THEN NumberToString(totalMinutes \div 60) \o <<"h">>
                ELSE NumberToString(totalMinutes \div 60) \o <<"h", " ">>
                     \o NumberToString(totalMinutes % 60) \o <<"m">>

\* C9 amended: a value below 60 is "Mm" (0 is "0m"), a positive whole number
\* of hours is "Nh", every other value is "Nh Mm" with N = floor(n/60) and
\* M = n mod 60; the label is never "0h 0m".
C9_LabelForms ==
    phase = "done" =>
        /\ totalMinutes < 60 =>
               label = NumberToString(totalMinutes) \o <<"m">>
        /\ (totalMinutes >= 60 /\ totalMinutes % 60 = 0) =>
               label = NumberToString(totalMinutes \div 60) \o <<"h">>
        /\ (totalMinutes >= 60 /\ totalMinutes % 60 # 0) =>
               label = NumberToString(totalMinutes \div 60) \o <<"h", " ">>
                       \o NumberToString(totalMinutes % 60) \o <<"m">>
        /\ label # <<"0", "h", " ", "0", "m">>

\* 30 minutes were rendered without an hour part, and so were 90 with one
C9_Witness ==
    /\ phase = "done"
    /\ totalMinutes = 30
    /\ label = <<"3", "0", "m">>

(***************************************************************************)
(* computeFreeSlots                                                        *)
(***************************************************************************)
Max(a, b) == IF a >= b THEN a ELSE b

Min(a, b) == IF a <= b THEN a ELSE b

FreeSlot(start, end) == [startMinutes |-> start, endMinutes |-> end]

\* the loop body with the cursor set to the end of the event, not held
\* forward
FreeSlotStepNoMax(acc, event) ==
    [slots  |-> IF event.startMinutes > acc.cursor
                THEN Append(acc.slots, FreeSlot(acc.cursor, event.startMinutes))
                ELSE acc.slots,
     cursor |-> event.endMinutes]

\* one pass of the loop over the events: acc holds the slots and the cursor
FreeSlotStep(acc, event) ==
    [slots  |-> IF event.startMinutes > acc.cursor
                THEN Append(acc.slots, FreeSlot(acc.cursor, event.startMinutes))
                ELSE acc.slots,
     cursor |-> Max(acc.cursor, event.endMinutes)]

RECURSIVE FreeSlotLoop(_, _)
FreeSlotLoop(acc, evs) ==
    IF evs = <<>> THEN acc
    ELSE FreeSlotLoop(FreeSlotStep(acc, Head(evs)), Tail(evs))

\* computeFreeSlots without the slot after the last event
computeFreeSlotsNoTail(evs, workStart, workEnd) ==
    FreeSlotLoop([slots |-> <<>>, cursor |-> workStart], evs).slots

computeFreeSlots(evs, workStart, workEnd) ==
    LET acc == FreeSlotLoop([slots |-> <<>>, cursor |-> workStart], evs)
    IN  IF acc.cursor < workEnd
        THEN Append(acc.slots, FreeSlot(acc.cursor, workEnd))
        ELSE acc.slots

(***************************************************************************)
(* Specification of computeFreeSlots over every short ascending sequence   *)
(* of events on a small time line, the events not bound to the window      *)
(***************************************************************************)
SlotTimes == 0..MaxT

\* the small windows, and the workday window of DAY_TYPE_CONFIG
SlotWindows ==
    {w \in SlotTimes \X SlotTimes : w[1] < w[2]} \cup {<<540, 1020>>}

SlotsInit ==
    /\ DeskIdle
    /\ calendarRaw = <<>>
    /\ lineSrc = <<>>
    /\ \E w \in SlotWindows :
          workStartMinutes = w[1] /\ workEndMinutes = w[2]
    /\ events = <<>>
    /\ freeSlots = <<>>
    /\ tasks = <<>>
    /\ planBlocks = <<>>
    /\ unscheduled = <<>>
    /\ TimeIdle
    /\ LabelIdle
    /\ phase = "input"

\* the caller appends an event that starts no earlier than the last one
AddEvent ==
    /\ phase = "input"
    /\ Len(events) < MaxEvents
    /\ \E st \in SlotTimes, en \in SlotTimes :
          /\ st < en
          /\ events # <<>> => events[Len(events)].startMinutes <= st
          /\ events' = Append(events,
                [title |-> <<"e">>, startMinutes |-> st, endMinutes |-> en])
    /\ UNCHANGED <<deskVars, calendarRaw, lineSrc, workStartMinutes, workEndMinutes,
                   freeSlots, tasks, planBlocks, unscheduled, timeVars,
                   labelVars, phase>>

ComputeSlots ==
    /\ phase = "input"
    /\ freeSlots' = computeFreeSlots(events, workStartMinutes, workEndMinutes)
    /\ phase' = "done"
    /\ UNCHANGED <<deskVars, calendarRaw, lineSrc, workStartMinutes, workEndMinutes,
                   events, tasks, planBlocks, unscheduled, timeVars, labelVars>>

SlotsNext == AddEvent \/ ComputeSlots

SpecSlots == SlotsInit /\ [][SlotsNext]_vars

\* minute t lies in interval x = [startMinutes, endMinutes)
Covers(x, t) == x.startMinutes <= t /\ t < x.endMinutes

InSomeSlot(t) == \E i \in 1..Len(freeSlots) : Covers(freeSlots[i], t)

InSomeEvent(t) == \E i \in 1..Len(events) : Covers(events[i], t)

\* the slots are ascending, pairwise disjoint and inside the window
SlotsOrderedInWindow ==
    /\ \A i \in 1..Len(freeSlots) :
          /\ workStartMinutes <= freeSlots[i].startMinutes
          /\ freeSlots[i].startMinutes < freeSlots[i].endMinutes
          /\ freeSlots[i].endMinutes <= workEndMinutes
    /\ \A i \in 1..(Len(freeSlots) - 1) :
          freeSlots[i].endMinutes <= freeSlots[i + 1].startMinutes

\* slots and events cover the window, and no slot minute lies in an event
SlotsComplementEvents ==
    /\ \A t \in workStartMinutes..(workEndMinutes - 1) :
          InSomeSlot(t) \/ InSomeEvent(t)
    /\ \A i \in 1..Len(freeSlots) :
          \A t \in freeSlots[i].startMinutes..(freeSlots[i].endMinutes - 1) :
              ~InSomeEvent(t)

\* C1: for every window [s,e) with s < e and every sequence of events
\* ascending by start, also events overlapping each other or reaching outside
\* the window, the slots of computeFreeSlots are pairwise disjoint, ascending,
\* inside [s,e), and with the events cover [s,e) exactly.
C1_SlotsPartitionWindow ==
    phase = "done" => SlotsOrderedInWindow /\ SlotsComplementEvents

\* C3: with no events computeFreeSlots returns the single slot
\* {workStart, workEnd}.
C3_NoEventsOneSlot ==
    (phase = "done" /\ events = <<>>) =>
        freeSlots = <<FreeSlot(workStartMinutes, workEndMinutes)>>

\* the workday window was computed with no events
C3_Witness ==
    /\ phase = "done"
    /\ events = <<>>
    /\ workStartMinutes = 540
    /\ Len(freeSlots) = 1
    /\ freeSlots[1].endMinutes = 1020

(***************************************************************************)
(* parseEvents                                                             *)
(***************************************************************************)
\* String.prototype.split("\n")
\* the position of the first "\n" of s at or after i, or 0
RECURSIVE NewlineFrom(_, _)
NewlineFrom(s, i) ==
    IF i > Len(s) THEN 0
    ELSE IF s[i] = "\n" THEN i
    ELSE NewlineFrom(s, i + 1)

RECURSIVE SplitLines(_)
SplitLines(s) ==
    LET i == NewlineFrom(s, 1)
    IN  IF i = 0 THEN <<s>>
        ELSE <<SubSeq(s, 1, i - 1)>> \o SplitLines(SubSeq(s, i + 1, Len(s)))

\* the length of the match of \d{1,2}:\d{2} at position i of s, or 0
TimeLenAt(s, i) ==
    LET fits(k) == /\ i + k + 2 <= Len(s)
                   /\ \A j \in i..(i + k - 1) : IsDigit(s[j])
                   /\ s[i + k] = ":"
                   /\ IsDigit(s[i + k + 1])
                   /\ IsDigit(s[i + k + 2])
    IN  IF \E k \in 1..2 : fits(k)
        THEN (CHOOSE k \in 1..2 : fits(k)) + 3
        ELSE 0

\* the length of the longest run of white space at position i of s
RECURSIVE SpaceRun(_, _)
SpaceRun(s, i) ==
    IF i <= Len(s) /\ IsSpace(s[i]) THEN 1 + SpaceRun(s, i + 1) ELSE 0

\* \s+(.+)$ at position i of s: the capture, or NoMatch.  \s+ is greedy and
\* gives characters back until (.+)$ matches what is left.
TitleAt(s, i) ==
    LET run    == SpaceRun(s, i)
        ok(c)  == /\ i + c <= Len(s)
                  /\ \A j \in (i + c)..Len(s) : s[j] \notin LineTerminators
        taken  == {c \in 1..run : ok(c)}
    IN  IF taken = {} THEN NoMatch
        ELSE LET c == CHOOSE c \in taken : \A d \in taken : d <= c
             IN  SubSeq(s, i + c, Len(s))

\* /^(\d{1,2}:\d{2})\s*-\s*(\d{1,2}:\d{2})\s+(.+)$/ : three captures, or NoMatch
RangeMatch(s) ==
    LET n1   == TimeLenAt(s, 1)
        dash == 1 + n1 + SpaceRun(s, 1 + n1)
        t2   == dash + 1 + SpaceRun(s, dash + 1)
        n2   == TimeLenAt(s, t2)
        rest == TitleAt(s, t2 + n2)
    IN  IF n1 = 0 THEN NoMatch
        ELSE IF ~(dash <= Len(s) /\ s[dash] = "-") THEN NoMatch
        ELSE IF n2 = 0 THEN NoMatch
        ELSE IF rest = NoMatch THEN NoMatch
        ELSE <<SubSeq(s, 1, n1), SubSeq(s, t2, t2 + n2 - 1), rest>>

\* /^(\d{1,2}:\d{2})\s+(.+)$/ : two captures, or NoMatch
SingleMatch(s) ==
    LET n1   == TimeLenAt(s, 1)
        rest == TitleAt(s, 1 + n1)
    IN  IF n1 = 0 THEN NoMatch
        ELSE IF rest = NoMatch THEN NoMatch
        ELSE <<SubSeq(s, 1, n1), rest>>

ParsedEvent(title, start, end) ==
    [title |-> title, startMinutes |-> start, endMinutes |-> end]

\* the clamping of an interval to the window without the check that it is
\* not empty
ClampedNoCheck(title, start, end, workStart, workEnd) ==
    <<ParsedEvent(title, Max(start, workStart), Min(end, workEnd))>>

\* what a recognised interval pushes on the events: one event, or nothing
Clamped(title, start, end, workStart, workEnd) ==
    LET clampedStart == Max(start, workStart)
        clampedEnd   == Min(end, workEnd)
    IN  IF clampedEnd > clampedStart
        THEN <<ParsedEvent(title, clampedStart, clampedEnd)>>
        ELSE <<>>

\* the range branch of the loop body, for a line that matched the range form
RangeEvents(rangeMatch, workStart, workEnd) ==
    LET start == parseTimeToMinutes(rangeMatch[1])
        end   == parseTimeToMinutes(rangeMatch[2])
        title == Trim(rangeMatch[3])
    IN  IF start = Null \/ end = Null \/ title = <<>> THEN <<>>
        ELSE Clamped(title, start, end, workStart, workEnd)

\* the point branch of the loop body, for a line that matched the point form
SingleEvents(singleMatch, workStart, workEnd) ==
    LET start == parseTimeToMinutes(singleMatch[1])
        title == Trim(singleMatch[2])
    IN  IF start = Null \/ title = <<>> THEN <<>>
        ELSE Clamped(title, start, start + 30, workStart, workEnd)

\* the loop body with the point form tried before the range form
LineEventsPointFirst(rawLine, workStart, workEnd) ==
    LET line        == Trim(rawLine)
        rangeMatch  == RangeMatch(line)
        singleMatch == SingleMatch(line)
    IN  IF line = <<>> THEN <<>>
        ELSE IF singleMatch # NoMatch
             THEN SingleEvents(singleMatch, workStart, workEnd)
        ELSE IF rangeMatch # NoMatch
             THEN RangeEvents(rangeMatch, workStart, workEnd)
        ELSE <<>>

\* the loop body: the events one line pushes (none or one)
LineEvents(rawLine, workStart, workEnd) ==
    LET line        == Trim(rawLine)
        rangeMatch  == RangeMatch(line)
        singleMatch == SingleMatch(line)
    IN  IF line = <<>> THEN <<>>
        ELSE IF rangeMatch # NoMatch
             THEN RangeEvents(rangeMatch, workStart, workEnd)
        ELSE IF singleMatch # NoMatch
             THEN SingleEvents(singleMatch, workStart, workEnd)
        ELSE <<>>

\* the loop over the lines, leaving the loop at the first line that pushes
\* nothing
RECURSIVE ParseLinesStopAtBad(_, _, _)
ParseLinesStopAtBad(lines, workStart, workEnd) ==
    IF lines = <<>> THEN <<>>
    ELSE LET pushed == LineEvents(Head(lines), workStart, workEnd)
         IN  IF pushed = <<>> THEN <<>>
             ELSE pushed \o ParseLinesStopAtBad(Tail(lines), workStart, workEnd)

\* the loop over the lines: the events in the order of their lines
RECURSIVE ParseLines(_, _, _)
ParseLines(lines, workStart, workEnd) ==
    IF lines = <<>> THEN <<>>
    ELSE LineEvents(Head(lines), workStart, workEnd)
         \o ParseLines(Tail(lines), workStart, workEnd)

\* one insertion of a sort that puts an event before those of equal start
InsertBeforeEqual(sorted, e) ==
    LET k == Cardinality({i \in 1..Len(sorted) :
                            sorted[i].startMinutes < e.startMinutes})
    IN  SubSeq(sorted, 1, k) \o <<e>> \o SubSeq(sorted, k + 1, Len(sorted))

\* one insertion of the stable sort: e goes after every event whose start
\* is not greater (the comparator is a.startMinutes - b.startMinutes)
InsertByStart(sorted, e) ==
    LET k == Cardinality({i \in 1..Len(sorted) :
                            sorted[i].startMinutes <= e.startMinutes})
    IN  SubSeq(sorted, 1, k) \o <<e>> \o SubSeq(sorted, k + 1, Len(sorted))

\* Array.prototype.sort, which is stable (ECMAScript 2019)
RECURSIVE SortByStart(_)
SortByStart(evs) ==
    IF evs = <<>> THEN <<>>
    ELSE InsertByStart(SortByStart(SubSeq(evs, 1, Len(evs) - 1)), evs[Len(evs)])

parseEvents(text, workStart, workEnd) ==
    SortByStart(ParseLines(SplitLines(text), workStart, workEnd))

(***************************************************************************)
(* The work windows                                                        *)
(***************************************************************************)
DayTypes == {"workday", "admin", "creative", "light"}

DAY_TYPE_CONFIG ==
    [d \in DayTypes |->
        CASE d = "workday"  -> [startMinutes |-> 9 * 60,  endMinutes |-> 17 * 60]
          [] d = "admin"    -> [startMinutes |-> 10 * 60, endMinutes |-> 18 * 60]
          [] d = "creative" -> [startMinutes |-> 11 * 60, endMinutes |-> 19 * 60]
          [] d = "light"    -> [startMinutes |-> 9 * 60,  endMinutes |-> 15 * 60]]

(***************************************************************************)
(* Calendar lines as a user writes them.  A written line keeps, beside its *)
(* text, what its writer meant: the form, the times and the title.         *)
(***************************************************************************)
\* minute-of-day t as a clock text, the hour with two digits when pad holds
ClockText(t, pad) ==
    (IF pad THEN TwoDigits(t \div 60) ELSE NumberToString(t \div 60))
    \o <<":">> \o TwoDigits(t % 60)

\* <t1> a - b <t2> c <title>
RangeLine(t1, p1, a, b, t2, p2, c, title) ==
    [kind  |-> "range",
     text  |-> ClockText(t1, p1) \o a \o <<"-">> \o b \o ClockText(t2, p2) \o c \o title,
     start |-> t1, end |-> t2, title |-> title]

\* <t> c <title>
PointLine(t, p, c, title) ==
    [kind  |-> "point",
     text  |-> ClockText(t, p) \o c \o title,
     start |-> t, end |-> t, title |-> title]

\* a line that is blank, has neither form, or has a time out of range
BadLine(text) ==
    [kind |-> "bad", text |-> text, start |-> 0, end |-> 0, title |-> <<>>]

\* the line with white space around it
Padded(l, before, after) == [l EXCEPT !.text = before \o l.text \o after]

Standup == <<"S", "t", "a", "n", "d", "u", "p">>

OneOnOne == <<"1", ":", "1">>

GarbageLine == <<"g", "a", "r", "b", "a", "g", "e", " ", "l", "i", "n", "e">>

OopsLine == <<"2", "5", ":", "0", "0", " ", "O", "o", "p", "s">>

BadEndLine == <<"0", "9", ":", "0", "0", "-", "2", "5", ":", "0", "0", " ", "g">>

SP == <<" ">>

\* the lines of the many-line texts
LinePool ==
    { RangeLine(570, TRUE, <<>>, <<>>, 600, TRUE, SP, Standup),
      RangeLine(510, FALSE, SP, SP, 570, FALSE, SP, <<"a">>),
      RangeLine(480, TRUE, <<>>, <<>>, 600, TRUE, SP, <<"d">>),
      RangeLine(420, TRUE, <<>>, <<>>, 480, TRUE, SP, <<"x">>),
      PointLine(900, TRUE, SP, OneOnOne),
      PointLine(570, FALSE, SP, <<"e">>),
      PointLine(1005, TRUE, SP, <<"l">>),
      BadLine(<<>>),
      BadLine(GarbageLine),
      BadLine(OopsLine),
      BadLine(BadEndLine) }

\* the times, titles and spacings of the one-line texts
RichTimes == {0, 510, 570, 600, 900, 1005, 1439}

RichTitles == {Standup, OneOnOne, <<"a", " ", "b">>}

PointTitles == RichTitles \cup {<<"-", " ", "1", "0", ":", "0", "0">>, <<"-", "x">>}

Gaps == {SP, <<"\t">>, <<" ", " ">>}

RichRangeLines ==
    { RangeLine(t1, p1, a, b, t2, p2, c, title) :
        t1 \in RichTimes, p1 \in BOOLEAN, a \in {<<>>, SP}, b \in {<<>>, SP},
        t2 \in RichTimes, p2 \in BOOLEAN, c \in {SP, <<" ", " ">>},
        title \in RichTitles }

RichPointLines ==
    { PointLine(t, p, c, title) :
        t \in RichTimes, p \in BOOLEAN, c \in Gaps, title \in PointTitles }

RichPool ==
    LET plain == RichRangeLines \cup RichPointLines
    IN  plain \cup {Padded(l, SP, <<" ", "\r">>) : l \in plain}

\* the texts of the lines joined by "\n"
RECURSIVE JoinLines(_)
JoinLines(ls) ==
    IF ls = <<>> THEN <<>>
    ELSE IF Len(ls) = 1 THEN ls[1].text
    ELSE ls[1].text \o <<"\n">> \o JoinLines(Tail(ls))

(***************************************************************************)
(* Specifications of parseEvents: texts of up to MaxLines lines of         *)
(* LinePool (SpecParse), and every one-line text of RichPool (SpecLine)    *)
(***************************************************************************)
\* the day types whose windows the many-line texts are parsed in
ParseDayTypes == {"workday", "admin", "light"}

ParseInit ==
    /\ DeskIdle
    /\ calendarRaw = <<>>
    /\ lineSrc = <<>>
    /\ \E d \in ParseDayTypes :
          /\ workStartMinutes = DAY_TYPE_CONFIG[d].startMinutes
          /\ workEndMinutes = DAY_TYPE_CONFIG[d].endMinutes
    /\ events = <<>>
    /\ freeSlots = <<>>
    /\ tasks = <<>>
    /\ planBlocks = <<>>
    /\ unscheduled = <<>>
    /\ TimeIdle
    /\ LabelIdle
    /\ phase = "input"

LineInit ==
    /\ DeskIdle
    /\ \E l \in RichPool : calendarRaw = l.text /\ lineSrc = <<l>>
    /\ \E d \in DayTypes :
          /\ workStartMinutes = DAY_TYPE_CONFIG[d].startMinutes
          /\ workEndMinutes = DAY_TYPE_CONFIG[d].endMinutes
    /\ events = <<>>
    /\ freeSlots = <<>>
    /\ tasks = <<>>
    /\ planBlocks = <<>>
    /\ unscheduled = <<>>
    /\ TimeIdle
    /\ LabelIdle
    /\ phase = "input"

\* the user writes one more line at the end of the calendar text
AppendLine ==
    /\ phase = "input"
    /\ Len(lineSrc) < MaxLines
    /\ \E l \in LinePool :
          /\ lineSrc' = Append(lineSrc, l)
          /\ calendarRaw' = JoinLines(lineSrc')
    /\ UNCHANGED <<deskVars, workStartMinutes, workEndMinutes, events, freeSlots, tasks,
                   planBlocks, unscheduled, timeVars, labelVars, phase>>

\* the text is parsed and the free slots are derived from the events
ParseCalendar ==
    /\ phase = "input"
    /\ events' = parseEvents(calendarRaw, workStartMinutes, workEndMinutes)
    /\ freeSlots' = computeFreeSlots(events', workStartMinutes, workEndMinutes)
    /\ phase' = "done"
    /\ UNCHANGED <<deskVars, calendarRaw, lineSrc, workStartMinutes, workEndMinutes,
                   tasks, planBlocks, unscheduled, timeVars, labelVars>>

ParseNext == AppendLine \/ ParseCalendar

SpecParse == ParseInit /\ [][ParseNext]_vars

LineNext == ParseCalendar

SpecLine == LineInit /\ [][LineNext]_vars

(***************************************************************************)
(* Claims about parseEvents                                                *)
(***************************************************************************)
\* the interval a written line stands for, before clamping
LineInterval(l) ==
    IF l.kind = "range" THEN <<l.start, l.end>> ELSE <<l.start, l.start + 30>>

\* the events a written line of the range or point form must give
ExpectedOfLine(l) ==
    LET cs == IF LineInterval(l)[1] >= workStartMinutes
              THEN LineInterval(l)[1] ELSE workStartMinutes
        ce == IF LineInterval(l)[2] <= workEndMinutes
              THEN LineInterval(l)[2] ELSE workEndMinutes
    IN  IF cs < ce
        THEN <<[title |-> l.title, startMinutes |-> cs, endMinutes |-> ce]>>
        ELSE <<>>

\* a minute of every stretch of the window on which "in a slot" and "in an
\* event" do not change: the window start and every start or end inside it
Probes ==
    {t \in {workStartMinutes}
           \cup {events[i].startMinutes : i \in 1..Len(events)}
           \cup {events[i].endMinutes : i \in 1..Len(events)}
           \cup {freeSlots[i].startMinutes : i \in 1..Len(freeSlots)}
           \cup {freeSlots[i].endMinutes : i \in 1..Len(freeSlots)} :
        workStartMinutes <= t /\ t < workEndMinutes}

\* C2: the slots of computeFreeSlots(parseEvents(text,s,e), s, e) are the
\* maximal sub-intervals of [s,e) not covered by a parsed event: each has
\* start < end, consecutive slots are strictly apart, and their union is
\* [s,e) minus the union of the events.
C2_SlotsAreMaximalGaps ==
    phase = "done" =>
        /\ SlotsOrderedInWindow
        /\ \A i \in 1..(Len(freeSlots) - 1) :
              freeSlots[i].endMinutes < freeSlots[i + 1].startMinutes
        /\ \A t \in Probes : InSomeSlot(t) <=> ~InSomeEvent(t)
        /\ \A i \in 1..Len(freeSlots) :
              /\ freeSlots[i].startMinutes = workStartMinutes
                 \/ InSomeEvent(freeSlots[i].startMinutes - 1)
              /\ freeSlots[i].endMinutes = workEndMinutes
                 \/ InSomeEvent(freeSlots[i].endMinutes)

\* two events lie between three slots
C2_Witness ==
    /\ phase = "done"
    /\ Len(events) = 3
    /\ Len(freeSlots) = 3
    /\ events[2].startMinutes < events[1].endMinutes

\* the events of per with start v, in the order of per, for each v of vs
\* in ascending order
RECURSIVE ByStart(_, _)
ByStart(per, vs) ==
    IF vs = {} THEN <<>>
    ELSE LET v == CHOOSE v \in vs : \A w \in vs : v <= w
         IN  SelectSeq(per, LAMBDA e : e.startMinutes = v) \o ByStart(per, vs \ {v})

\* the events of the lines of the calendar text, in line order
PerLine == ParseLines(SplitLines(calendarRaw), workStartMinutes, workEndMinutes)

\* C4: parseEvents returns its events ascending by startMinutes, and events
\* of the same (clamped) start in the order of their lines: the stable sort
\* by start of the per-line results taken in line order.
C4_SortedStable ==
    phase = "done" =>
        /\ \A i \in 1..(Len(events) - 1) :
              events[i].startMinutes <= events[i + 1].startMinutes
        /\ LET per == PerLine
           IN  events = ByStart(per, {per[i].startMinutes : i \in 1..Len(per)})

\* three events, two of one start, that were not in order in the text
C4_Witness ==
    /\ phase = "done"
    /\ Len(events) = 3
    /\ events[2].startMinutes = events[3].startMinutes
    /\ events[2] # events[3]
    /\ Len(PerLine) = 3
    /\ events[1] = PerLine[3]

\* C5: every event of parseEvents has workStart <= start < end <= workEnd; a
\* recognised line whose interval is outside the window, or empty once
\* clamped, gives no event, and one that partly overlaps the window gives
\* its interval cut at the window.
C5_EventsClamped ==
    phase = "done" =>
        /\ \A i \in 1..Len(events) :
              /\ workStartMinutes <= events[i].startMinutes
              /\ events[i].startMinutes < events[i].endMinutes
              /\ events[i].endMinutes <= workEndMinutes
        /\ \A i \in 1..Len(lineSrc) :
              lineSrc[i].kind # "bad" =>
                  LineEvents(lineSrc[i].text, workStartMinutes, workEndMinutes)
                      = ExpectedOfLine(lineSrc[i])
        /\ \A i \in 1..Len(events) :
              \E j \in 1..Len(lineSrc) :
                  lineSrc[j].kind # "bad" /\ <<events[i]>> = ExpectedOfLine(lineSrc[j])
        /\ Len(events) = Cardinality({j \in 1..Len(lineSrc) :
                  lineSrc[j].kind # "bad" /\ ExpectedOfLine(lineSrc[j]) # <<>>})

\* a line across the window start was cut and a line before it was dropped
C5_Witness ==
    /\ phase = "done"
    /\ Len(lineSrc) = 2
    /\ lineSrc[1].kind = "range" /\ lineSrc[1].start < lineSrc[1].end
    /\ lineSrc[1].end <= workStartMinutes
    /\ lineSrc[2].start < workStartMinutes
    /\ Len(events) = 1
    /\ events[1].startMinutes = workStartMinutes

\* C6: a recognised line stands for [t1, t2] in the range form
\* "<t1> - <t2> <title>" and for [t, t+30] in the point form "<t> <title>",
\* the range form being tried first; in a window that holds it
\* "09:30-10:00 Standup" is {Standup,570,600} and "15:00 1:1" is {1:1,900,930}.
C6_LineIntervals ==
    phase = "done" => events = ExpectedOfLine(lineSrc[1])

\* the two lines of the claim, in the workday window
C6_Witness ==
    /\ phase = "done"
    /\ workStartMinutes = 540 /\ workEndMinutes = 1020
    /\ \/ /\ calendarRaw = <<"0", "9", ":", "3", "0", "-", "1", "0", ":", "0", "0", " ">>
                           \o Standup
          /\ events = <<[title |-> Standup, startMinutes |-> 570, endMinutes |-> 600]>>
       \/ /\ calendarRaw = <<"1", "5", ":", "0", "0", " ", "1", ":", "1">>
          /\ events = <<[title |-> OneOnOne, startMinutes |-> 900, endMinutes |-> 930]>>

\* the written lines without the i-th
WithoutLine(ls, i) == SubSeq(ls, 1, i - 1) \o SubSeq(ls, i + 1, Len(ls))

\* C7: a blank line, a line of neither form and a line with a time out of
\* range give no event, and the events of the text are those of the text
\* without that line.
C7_BadLinesIgnored ==
    phase = "done" =>
        \A i \in 1..Len(lineSrc) :
            lineSrc[i].kind = "bad" =>
                /\ LineEvents(lineSrc[i].text, workStartMinutes, workEndMinutes) = <<>>
                /\ events = parseEvents(JoinLines(WithoutLine(lineSrc, i)),
                                        workStartMinutes, workEndMinutes)

\* a bad line stood between two lines that gave events
C7_Witness ==
    /\ phase = "done"
    /\ Len(lineSrc) = 3
    /\ lineSrc[2].text = OopsLine
    /\ Len(events) = 2

(***************************************************************************)
(* buildPlan                                                               *)
(***************************************************************************)
PlannedBlock(task, start, end) ==
    [taskTitle |-> task.title, startMinutes |-> start, endMinutes |-> end,
     isImportant |-> task.isImportant, context |-> task.context]

\* the state of buildPlan before the first task, were the first slot passed
\* over
PlanStartSecondSlot(slots) ==
    [slotIndex   |-> 2,
     slotCursor  |-> IF Len(slots) >= 2 THEN slots[2].startMinutes ELSE 0,
     blocks      |-> <<>>,
     unscheduled |-> <<>>]

\* the state of buildPlan before the first task.  slotIndex counts from 1;
\* currentSlot is slots[slotIndex], and null when slotIndex > Len(slots).
PlanStart(slots) ==
    [slotIndex   |-> 1,
     slotCursor  |-> IF slots # <<>> THEN slots[1].startMinutes ELSE 0,
     blocks      |-> <<>>,
     unscheduled |-> <<>>]

\* the while loop taking all that is left of the slot, whatever remains of
\* the task
RECURSIVE PlaceTaskWholeSlot(_, _, _, _)
PlaceTaskWholeSlot(slots, task, remaining, st) ==
    IF remaining > 0 /\ st.slotIndex <= Len(slots)
    THEN LET currentSlot == slots[st.slotIndex]
         IN  IF st.slotCursor >= currentSlot.endMinutes
             THEN PlaceTaskWholeSlot(slots, task, remaining,
                    [st EXCEPT !.slotIndex = @ + 1,
                               !.slotCursor =
                                   IF st.slotIndex + 1 <= Len(slots)
                                   THEN slots[st.slotIndex + 1].startMinutes
                                   ELSE @])
             ELSE LET available  == currentSlot.endMinutes - st.slotCursor
                      blockStart == st.slotCursor
                      blockEnd   == blockStart + available
                  IN  PlaceTaskWholeSlot(slots, task, remaining - Min(available, remaining),
                        [st EXCEPT !.blocks = Append(@, PlannedBlock(task, blockStart, blockEnd)),
                                   !.slotCursor = blockEnd])
    ELSE [state |-> st, remaining |-> remaining]

\* the while loop that goes to the next slot without moving the cursor to
\* its start
RECURSIVE PlaceTaskKeepsCursor(_, _, _, _)
PlaceTaskKeepsCursor(slots, task, remaining, st) ==
    IF remaining > 0 /\ st.slotIndex <= Len(slots)
    THEN LET currentSlot == slots[st.slotIndex]
         IN  IF st.slotCursor >= currentSlot.endMinutes
             THEN PlaceTaskKeepsCursor(slots, task, remaining,
                    [st EXCEPT !.slotIndex = @ + 1])
             ELSE LET available  == currentSlot.endMinutes - st.slotCursor
                      used       == Min(available, remaining)
                      blockStart == st.slotCursor
                      blockEnd   == blockStart + used
                  IN  PlaceTaskKeepsCursor(slots, task, remaining - used,
                        [st EXCEPT !.blocks = Append(@, PlannedBlock(task, blockStart, blockEnd)),
                                   !.slotCursor = blockEnd])
    ELSE [state |-> st, remaining |-> remaining]

\* the while loop for one task: the state after it, with what remains
RECURSIVE PlaceTask(_, _, _, _)
PlaceTask(slots, task, remaining, st) ==
    IF remaining > 0 /\ st.slotIndex <= Len(slots)
    THEN LET currentSlot == slots[st.slotIndex]
         IN  IF st.slotCursor >= currentSlot.endMinutes
             THEN PlaceTask(slots, task, remaining,
                    [st EXCEPT !.slotIndex = @ + 1,
                               !.slotCursor =
                                   IF st.slotIndex + 1 <= Len(slots)
                                   THEN slots[st.slotIndex + 1].startMinutes
                                   ELSE @])
             ELSE LET available  == currentSlot.endMinutes - st.slotCursor
                      used       == Min(available, remaining)
                      blockStart == st.slotCursor
                      blockEnd   == blockStart + used
                  IN  PlaceTask(slots, task, remaining - used,
                        [st EXCEPT !.blocks = Append(@, PlannedBlock(task, blockStart, blockEnd)),
                                   !.slotCursor = blockEnd])
    ELSE [state |-> st, remaining |-> remaining]

\* the test for a task to skip, looking at the include flag alone
SkippedByIncludeOnly(task) == ~task.include

\* the test at the head of the task loop
Skipped(task) == ~task.include \/ task.durationMinutes <= 0

\* the body of the task loop, were the slot index and the cursor set back to
\* the first slot before each task
PlanTaskResetsCursor(slots, st, task) ==
    IF Skipped(task)
    THEN [st EXCEPT !.unscheduled = Append(@, task)]
    ELSE LET placed == PlaceTask(slots, task, task.durationMinutes,
                           [st EXCEPT !.slotIndex = 1,
                                      !.slotCursor = PlanStart(slots).slotCursor])
         IN  IF placed.remaining > 0
             THEN [placed.state EXCEPT !.unscheduled = Append(@, task)]
             ELSE placed.state

\* the body of the task loop without the report of a task that is left over
PlanTaskForgetsLeftover(slots, st, task) ==
    IF Skipped(task)
    THEN [st EXCEPT !.unscheduled = Append(@, task)]
    ELSE PlaceTask(slots, task, task.durationMinutes, st).state

\* the body of the task loop taking back the blocks of a task that is left
\* over
PlanTaskRollsBack(slots, st, task) ==
    IF Skipped(task)
    THEN [st EXCEPT !.unscheduled = Append(@, task)]
    ELSE LET placed == PlaceTask(slots, task, task.durationMinutes, st)
         IN  IF placed.remaining > 0
             THEN [placed.state EXCEPT !.unscheduled = Append(@, task),
                                       !.blocks = st.blocks]
             ELSE placed.state

\* the body of the task loop
PlanTask(slots, st, task) ==
    IF Skipped(task)
    THEN [st EXCEPT !.unscheduled = Append(@, task)]
    ELSE LET placed == PlaceTask(slots, task, task.durationMinutes, st)
         IN  IF placed.remaining > 0
             THEN [placed.state EXCEPT !.unscheduled = Append(@, task)]
             ELSE placed.state

RECURSIVE PlanLoop(_, _, _)
PlanLoop(slots, st, ts) ==
    IF ts = <<>> THEN st
    ELSE PlanLoop(slots, PlanTask(slots, st, Head(ts)), Tail(ts))

buildPlan(slots, ts) ==
    LET final == PlanLoop(slots, PlanStart(slots), ts)
    IN  [blocks |-> final.blocks, unscheduled |-> final.unscheduled]

(***************************************************************************)
(* Specification of buildPlan: every ascending sequence of disjoint slots  *)
(* between the marks 0, 30, 60 and 90, and up to MaxTasks tasks            *)
(***************************************************************************)
PlanMarks == {0, 30, 60, 90}

PlanSlots == {sl \in [startMinutes : PlanMarks, endMinutes : PlanMarks] :
                 sl.startMinutes < sl.endMinutes}

PlanSlotSeqs ==
    {<<>>}
    \cup {<<a>> : a \in PlanSlots}
    \cup {p \in PlanSlots \X PlanSlots : p[1].endMinutes <= p[2].startMinutes}
    \cup {<<[startMinutes |-> 0, endMinutes |-> 30],
            [startMinutes |-> 30, endMinutes |-> 60],
            [startMinutes |-> 60, endMinutes |-> 90]>>}

\* the include flags and durations of the tasks
PlanTaskKinds ==
    {<<TRUE, d>> : d \in {-5, 0, 10, 30, 45}} \cup {<<FALSE, 30>>}

PlanInit ==
    /\ DeskIdle
    /\ calendarRaw = <<>>
    /\ lineSrc = <<>>
    /\ workStartMinutes = 0
    /\ workEndMinutes = 90
    /\ events = <<>>
    /\ freeSlots \in PlanSlotSeqs
    /\ tasks = <<>>
    /\ planBlocks = <<>>
    /\ unscheduled = <<>>
    /\ TimeIdle
    /\ LabelIdle
    /\ phase = "input"

\* a task is added at the end of the registry, with the next id, and given
\* an include flag and a duration
AddTask ==
    /\ phase = "input"
    /\ Len(tasks) < MaxTasks
    /\ \E k \in PlanTaskKinds :
          LET id == IF tasks # <<>> THEN tasks[Len(tasks)].id + 1 ELSE 1
          IN  tasks' = Append(tasks,
                [id |-> id, title |-> <<"t", Digits[id + 1]>>, include |-> k[1],
                 durationMinutes |-> k[2], isImportant |-> FALSE,
                 context |-> "other"])
    /\ UNCHANGED <<deskVars, calendarRaw, lineSrc, workStartMinutes, workEndMinutes,
                   events, freeSlots, planBlocks, unscheduled, timeVars,
                   labelVars, phase>>

\* handleBuildPlan
BuildPlan ==
    /\ phase = "input"
    /\ LET plan == buildPlan(freeSlots, tasks)
       IN  /\ planBlocks' = plan.blocks
           /\ unscheduled' = plan.unscheduled
    /\ phase' = "done"
    /\ UNCHANGED <<deskVars, calendarRaw, lineSrc, workStartMinutes, workEndMinutes,
                   events, freeSlots, tasks, timeVars, labelVars>>

PlanNext == AddTask \/ BuildPlan

SpecPlan == PlanInit /\ [][PlanNext]_vars

\* the tasks without the i-th
WithoutTask(ts, i) == SubSeq(ts, 1, i - 1) \o SubSeq(ts, i + 1, Len(ts))

\* C10: a task with include = false or durationMinutes <= 0 gives no block,
\* is appended to the unscheduled list and leaves the slot index and the
\* cursor as they were, so the blocks of the other tasks are those of the
\* registry without that task.
C10_SkippedTaskConsumesNothing ==
    phase = "done" =>
        \A i \in 1..Len(tasks) :
            (~tasks[i].include \/ tasks[i].durationMinutes <= 0) =>
                LET before == PlanLoop(freeSlots, PlanStart(freeSlots),
                                       SubSeq(tasks, 1, i - 1))
                    after  == PlanTask(freeSlots, before, tasks[i])
                    rest   == buildPlan(freeSlots, WithoutTask(tasks, i))
                IN  /\ after.blocks = before.blocks
                    /\ after.slotIndex = before.slotIndex
                    /\ after.slotCursor = before.slotCursor
                    /\ after.unscheduled = Append(before.unscheduled, tasks[i])
                    /\ \E j \in 1..Len(unscheduled) : unscheduled[j] = tasks[i]
                    /\ \A j \in 1..Len(planBlocks) :
                          planBlocks[j].taskTitle # tasks[i].title
                    /\ planBlocks = rest.blocks
                    /\ SelectSeq(unscheduled, LAMBDA t : t # tasks[i])
                          = rest.unscheduled

\* an excluded task and a task of no duration stood before a task that was
\* placed
C10_Witness ==
    /\ phase = "done"
    /\ Len(tasks) = 3
    /\ ~tasks[1].include
    /\ tasks[2].include /\ tasks[2].durationMinutes = 0
    /\ tasks[3].durationMinutes = 30
    /\ Len(planBlocks) = 1
    /\ planBlocks[1].taskTitle = tasks[3].title
    /\ Len(unscheduled) = 2

(***************************************************************************)
(* More claims about buildPlan                                             *)
(***************************************************************************)
\* the start and end of each block
Spans(blocks) ==
    [j \in 1..Len(blocks) |-> <<blocks[j].startMinutes, blocks[j].endMinutes>>]

RECURSIVE TotalLength(_)
TotalLength(xs) ==
    IF xs = <<>> THEN 0
    ELSE (Head(xs).endMinutes - Head(xs).startMinutes) + TotalLength(Tail(xs))

\* the blocks of the task of that title
BlocksOf(blocks, title) == SelectSeq(blocks, LAMBDA b : b.taskTitle = title)

\* the slots {0,30},{60,90} and one included task of 45 minutes
SplitCase ==
    /\ phase = "done"
    /\ freeSlots = <<FreeSlot(0, 30), FreeSlot(60, 90)>>
    /\ Len(tasks) = 1
    /\ tasks[1].include
    /\ tasks[1].durationMinutes = 45

\* C11 as claimed: the blocks are {0,30} and {60,75} and the task is in the
\* unscheduled list.
C11_AsClaimed ==
    SplitCase =>
        /\ Spans(planBlocks) = <<<<0, 30>>, <<60, 75>>>>
        /\ \E j \in 1..Len(unscheduled) : unscheduled[j] = tasks[1]

\* C11 amended: with the slots {0,30},{60,90} and one included task of 45
\* minutes buildPlan gives exactly the blocks {0,30} and {60,75}, both of the
\* task, and the unscheduled list is empty, the task being placed in full.
C11_SplitAcrossSlots ==
    SplitCase =>
        /\ Spans(planBlocks) = <<<<0, 30>>, <<60, 75>>>>
        /\ \A j \in 1..Len(planBlocks) : planBlocks[j].taskTitle = tasks[1].title
        /\ unscheduled = <<>>

\* the plan of the split case was built
C11_Witness == SplitCase /\ Len(planBlocks) = 2

\* C12: once the free slots are used up, or when there is no slot at all,
\* every later included task of positive duration gives no block and is in
\* the unscheduled list; slots {0,30} with tasks of 30 and 10 minutes give
\* the block {0,30} and unscheduled = [second task].
C12_ExhaustedSlots ==
    phase = "done" =>
        /\ \A i \in 1..Len(tasks) :
              LET before == PlanLoop(freeSlots, PlanStart(freeSlots),
                                     SubSeq(tasks, 1, i - 1))
              IN  (/\ tasks[i].include
                   /\ tasks[i].durationMinutes > 0
                   /\ TotalLength(before.blocks) = TotalLength(freeSlots)) =>
                      /\ BlocksOf(planBlocks, tasks[i].title) = <<>>
                      /\ \E j \in 1..Len(unscheduled) : unscheduled[j] = tasks[i]
        /\ (/\ freeSlots = <<FreeSlot(0, 30)>>
            /\ Len(tasks) = 2
            /\ tasks[1].include /\ tasks[1].durationMinutes = 30
            /\ tasks[2].include /\ tasks[2].durationMinutes = 10) =>
               /\ Spans(planBlocks) = <<<<0, 30>>>>
               /\ planBlocks[1].taskTitle = tasks[1].title
               /\ unscheduled = <<tasks[2]>>

\* the plan of the slot {0,30} and the tasks of 30 and 10 minutes was built
C12_Witness ==
    /\ phase = "done"
    /\ freeSlots = <<FreeSlot(0, 30)>>
    /\ Len(tasks) = 2
    /\ tasks[1].include /\ tasks[1].durationMinutes = 30
    /\ tasks[2].include /\ tasks[2].durationMinutes = 10
    /\ Len(unscheduled) = 1

\* task t is excluded, has no duration, or has blocks shorter than its
\* duration
NotPlacedInFull(t) ==
    \/ ~t.include
    \/ t.durationMinutes <= 0
    \/ TotalLength(BlocksOf(planBlocks, t.title)) < t.durationMinutes

\* C13: a task is in the unscheduled list exactly when it is excluded, has a
\* duration <= 0, or the total length of its blocks is less than its
\* duration; a task placed in part keeps its blocks, and the unscheduled list
\* is in registry order.
C13_UnscheduledExactly ==
    phase = "done" =>
        /\ unscheduled = SelectSeq(tasks, NotPlacedInFull)
        /\ \A i \in 1..Len(tasks) :
              LET earlier == SelectSeq(planBlocks,
                                 LAMBDA b : \E k \in 1..(i - 1) : b.taskTitle = tasks[k].title)
                  left    == TotalLength(freeSlots) - TotalLength(earlier)
                  placed  == TotalLength(BlocksOf(planBlocks, tasks[i].title))
              IN  IF ~tasks[i].include \/ tasks[i].durationMinutes <= 0
                  THEN placed = 0
                  ELSE placed = Min(tasks[i].durationMinutes, left)

\* a task placed in part kept its block and is unscheduled, after a task
\* placed in full
C13_Witness ==
    /\ phase = "done"
    /\ Len(tasks) = 2
    /\ Len(planBlocks) = 2
    /\ planBlocks[2].taskTitle = tasks[2].title
    /\ unscheduled = <<tasks[2]>>

\* C14: every task in the unscheduled list of a scheduling run is an included
\* task of positive duration whose full duration could not be placed.
C14_UnscheduledDidNotFit ==
    phase = "done" =>
        \A j \in 1..Len(unscheduled) :
            /\ unscheduled[j].include
            /\ unscheduled[j].durationMinutes > 0
            /\ TotalLength(BlocksOf(planBlocks, unscheduled[j].title))
                   < unscheduled[j].durationMinutes

(***************************************************************************)
(* The overload message under the plan                                     *)
(***************************************************************************)
\* freeSlots.reduce((sum, slot) => sum + (slot.endMinutes - slot.startMinutes), 0)
totalFreeMinutes(slots) == TotalLength(slots)

\* planBlocks.reduce((sum, block) => sum + (block.endMinutes - block.startMinutes), 0)
totalPlannedTaskMinutes(blocks) == TotalLength(blocks)

\* the character U+2013
EnDash == "u2013"

\* the tests of the message in another order: the surplus before the empty
\* window
OverloadMessageSurplusFirst(free, planned) ==
    LET diff == planned - free
    IN  IF diff > 0 THEN <<"Overbooked by ", minutesToLabel(diff), ".">>
        ELSE IF free = 0 THEN <<"No free time in your work window.">>
        ELSE IF diff < 0 THEN <<"You still have ", minutesToLabel(-diff), " free.">>
        ELSE <<"Perfectly packed ", EnDash, " no free time left.">>

\* the message, a template literal being the sequence of its parts
OverloadMessage(free, planned) ==
    LET diff == planned - free
    IN  IF free = 0 THEN <<"No free time in your work window.">>
        ELSE IF diff > 0 THEN <<"Overbooked by ", minutesToLabel(diff), ".">>
        ELSE IF diff < 0 THEN <<"You still have ", minutesToLabel(-diff), " free.">>
        ELSE <<"Perfectly packed ", EnDash, " no free time left.">>

\* the tasks whose plans stand when the free slots change under them
OverloadTaskLists ==
    LET task(id, d) ==
            [id |-> id, title |-> <<"t", Digits[id + 1]>>, include |-> TRUE,
             durationMinutes |-> d, isImportant |-> FALSE, context |-> "other"]
    IN  {<<>>} \cup {<<task(1, d)>> : d \in {10, 30, 45, 60}}
               \cup {<<task(1, 30), task(2, d)>> : d \in {15, 30, 60}}

\* the plans built over some free slots
OverloadPlans ==
    {buildPlan(s, ts).blocks : s \in PlanSlotSeqs, ts \in OverloadTaskLists}

\* a plan stands, built over free slots that the calendar has changed since
OverloadInit ==
    /\ calendarRaw = <<>>
    /\ lineSrc = <<>>
    /\ workStartMinutes = 0
    /\ workEndMinutes = 90
    /\ events = <<>>
    /\ freeSlots \in PlanSlotSeqs
    /\ tasks = <<>>
    /\ planBlocks \in OverloadPlans
    /\ unscheduled = <<>>
    /\ TimeIdle
    /\ LabelIdle
    /\ DeskIdle
    /\ phase = "input"

\* the render computes the message
RenderOverload ==
    /\ phase = "input"
    /\ overloadMessage' = OverloadMessage(totalFreeMinutes(freeSlots),
                                          totalPlannedTaskMinutes(planBlocks))
    /\ phase' = "done"
    /\ UNCHANGED <<pageVars, timeVars, labelVars, dayType, now, clock, quickTask,
                   daySummary, reminderTimersRef, storage, savedTasks, fired,
                   lastEvent, steps>>

OverloadNext == RenderOverload

SpecOverload == OverloadInit /\ [][OverloadNext]_vars

\* C20: with F the total of the free slots and P the total of the blocks,
\* F = 0 gives the no-free-time message even when P > 0; otherwise P > F
\* gives "Overbooked by" the label of P - F; otherwise P < F gives the label
\* of F - P "free"; otherwise (P = F > 0) gives the perfectly-packed message.
C20_OverloadMessage ==
    phase = "done" =>
        LET F == TotalLength(freeSlots)
            P == TotalLength(planBlocks)
        IN  /\ F >= 0 /\ P >= 0
            /\ F = 0 => overloadMessage = <<"No free time in your work window.">>
            /\ (F # 0 /\ P > F) =>
                   overloadMessage = <<"Overbooked by ", minutesToLabel(P - F), ".">>
            /\ (F # 0 /\ P < F) =>
                   overloadMessage = <<"You still have ", minutesToLabel(F - P), " free.">>
            /\ (F # 0 /\ P = F) =>
                   overloadMessage = <<"Perfectly packed ", EnDash, " no free time left.">>

\* the message was computed over no free time with blocks planned
C20_Witness ==
    /\ phase = "done"
    /\ TotalLength(freeSlots) = 0
    /\ TotalLength(planBlocks) > 0
    /\ overloadMessage # <<>>

(***************************************************************************)
(* The persisted record.  A JSON text is kept as the document it encodes:  *)
(* a value with its type tag, an object being the sequence of its members. *)
(* A text that JSON.parse rejects is the value Malformed, and a missing    *)
(* item the value Absent.                                                  *)
(***************************************************************************)
JStr(s) == [t |-> "string", v |-> s]

JNum(n) == [t |-> "number", v |-> n]

JBool(b) == [t |-> "boolean", v |-> b]

JNull == [t |-> "null"]

JArr(xs) == [t |-> "array", v |-> xs]

JObj(members) == [t |-> "object", v |-> members]

Malformed == [t |-> "malformed"]

Absent == [t |-> "absent"]

\* the members of the fields that the task has, undefined ones being left out
TaskFieldOrder ==
    <<"id", "title", "include", "durationMinutes", "isImportant", "context",
      "reviewStatus", "reviewNote">>

TaskMember(task, key) ==
    <<key,
      CASE key \in {"id", "durationMinutes"} -> JNum(task[key])
        [] key \in {"include", "isImportant"} -> JBool(task[key])
        [] OTHER -> JStr(task[key])>>

\* JSON.stringify of a task that writes null for a field the task lacks
StringifyTaskWithNulls(task) ==
    JObj([j \in 1..Len(TaskFieldOrder) |->
            IF TaskFieldOrder[j] \in DOMAIN task
            THEN TaskMember(task, TaskFieldOrder[j])
            ELSE <<TaskFieldOrder[j], JNull>>])

\* JSON.stringify of a task
StringifyTask(task) ==
    LET present == SelectSeq(TaskFieldOrder, LAMBDA key : key \in DOMAIN task)
    IN  JObj([j \in 1..Len(present) |-> TaskMember(task, present[j])])

\* JSON.stringify({ dayType, calendarRaw, tasks, daySummary })
StringifyData(dt, raw, ts, summary) ==
    JObj(<<<<"dayType", JStr(dt)>>,
           <<"calendarRaw", JStr(raw)>>,
           <<"tasks", JArr([j \in 1..Len(ts) |-> StringifyTask(ts[j])])>>,
           <<"daySummary", JStr(summary)>>>>)

\* parsed[key] of a parsed document that is not null: a primitive or an array
\* has no such property, and an object has it when it has the member
HasMember(parsed, key) ==
    /\ parsed.t = "object"
    /\ \E j \in 1..Len(parsed.v) : parsed.v[j][1] = key

Member(parsed, key) ==
    parsed.v[CHOOSE j \in 1..Len(parsed.v) : parsed.v[j][1] = key][2]

\* if (x): the value is neither null, false, 0 nor ""
Truthy(x) ==
    CASE x.t = "null" -> FALSE
      [] x.t = "boolean" -> x.v
      [] x.t = "number" -> x.v # 0
      [] x.t = "string" -> x.v # ""
      [] OTHER -> TRUE

\* the value of a parsed document as the page holds it
RECURSIVE ValueOf(_)
ValueOf(x) ==
    CASE x.t = "null" -> Null
      [] x.t = "array" -> [j \in 1..Len(x.v) |-> ValueOf(x.v[j])]
      [] x.t = "object" ->
            [key \in {x.v[j][1] : j \in 1..Len(x.v)} |-> ValueOf(Member(x, key))]
      [] OTHER -> x.v

\* the state the load effect asks for, from the state st of the first render
LoadEffect(item, st) ==
    IF item.t \in {"absent", "malformed", "null"}
    THEN st
    ELSE LET parsed == item
             has(key, type) == HasMember(parsed, key) /\ Member(parsed, key).t = type
         IN  [dayType |->
                 IF HasMember(parsed, "dayType") /\ Truthy(Member(parsed, "dayType"))
                 THEN ValueOf(Member(parsed, "dayType"))
                 ELSE st.dayType,
              calendarRaw |->
                 IF has("calendarRaw", "string")
                 THEN ValueOf(Member(parsed, "calendarRaw"))
                 ELSE st.calendarRaw,
              tasks |->
                 IF has("tasks", "array")
                 THEN ValueOf(Member(parsed, "tasks"))
                 ELSE st.tasks,
              daySummary |->
                 IF has("daySummary", "string")
                 THEN ValueOf(Member(parsed, "daySummary"))
                 ELSE st.daySummary]

(***************************************************************************)
(* The page: its handlers, each with the effects and renders that follow   *)
(* it until the page is at rest                                            *)
(***************************************************************************)
\* buildResumeText reads DAY_TYPE_CONFIG[dayType].label in every render
RenderThrows(dt) == dt \notin DOMAIN DAY_TYPE_CONFIG

\* a pending timer of the reminder effect
Timer(block) == [block |-> block, at |-> block.startMinutes - 5]

\* the reminder effect that leaves the timers it finds
ReminderEffectKeepsTimers(timers, blocks, n) ==
    timers \o
    (IF n = Null THEN <<>>
     ELSE LET due == SelectSeq(blocks,
                        LAMBDA b : b.isImportant /\ b.startMinutes - 5 > 0
                                                 /\ b.startMinutes - 5 > n)
          IN  [j \in 1..Len(due) |-> Timer(due[j])])

\* the reminder effect: the timers it finds are cleared, and one is set for
\* each important block whose reminder is still to come
ReminderEffect(timers, blocks, n) ==
    IF n = Null THEN <<>>
    ELSE LET due == SelectSeq(blocks,
                       LAMBDA b : b.isImportant /\ b.startMinutes - 5 > 0
                                                /\ b.startMinutes - 5 > n)
         IN  [j \in 1..Len(due) |-> Timer(due[j])]

\* { ...t, ...changes }
Spread(t, changes) ==
    [key \in DOMAIN t \cup DOMAIN changes |->
        IF key \in DOMAIN changes THEN changes[key] ELSE t[key]]

\* the render at rest: the free slots and the message
Render ==
    /\ freeSlots' = computeFreeSlots(events', workStartMinutes', workEndMinutes')
    /\ overloadMessage' = OverloadMessage(totalFreeMinutes(freeSlots'),
                                          totalPlannedTaskMinutes(planBlocks'))

\* the save effect
SaveEffect ==
    /\ storage' = StringifyData(dayType', calendarRaw', tasks', daySummary')
    /\ savedTasks' = <<tasks'>>

\* the auto-parse effect, were it not to run
AutoParseEffectStale == UNCHANGED events

\* the auto-parse effect
AutoParseEffect ==
    events' = parseEvents(calendarRaw', workStartMinutes', workEndMinutes')

\* the dayType effect that leaves the plan
DayTypeEffectKeepsPlan ==
    /\ workStartMinutes' = DAY_TYPE_CONFIG[dayType'].startMinutes
    /\ workEndMinutes' = DAY_TYPE_CONFIG[dayType'].endMinutes
    /\ UNCHANGED <<planBlocks, unscheduled>>

\* the dayType effect
DayTypeEffect ==
    /\ workStartMinutes' = DAY_TYPE_CONFIG[dayType'].startMinutes
    /\ workEndMinutes' = DAY_TYPE_CONFIG[dayType'].endMinutes
    /\ planBlocks' = <<>>
    /\ unscheduled' = <<>>

\* what the model lets the user and the clock do: the minutes around 09:55,
\* when the reminder of a block at 10:00 is due
ClockTimes == {594, 595}

DeskCalendars ==
    {RangeLine(570, TRUE, <<>>, <<>>, 630, TRUE, SP, <<"a">>).text}

DeskQuickTasks == {<<" ", "a", " ">>}

DeskSummaries == {<<"o", "k">>}

DeskDurations == {60}

DeskContexts == {"deep"}

DeskReviewChanges == {[reviewStatus |-> "done"], [reviewNote |-> <<"n">>]}

\* the items the page may find when it starts
StoredItems ==
    LET task(id, title) ==
            [id |-> id, title |-> title, include |-> TRUE, durationMinutes |-> 30,
             isImportant |-> FALSE, context |-> "other"]
    IN  { Absent, Malformed, JNull, JNum(7), JObj(<<>>),
          JObj(<<<<"dayType", JStr("light")>>>>),
          JObj(<<<<"dayType", JStr("holiday")>>,
                 <<"tasks", JArr(<<StringifyTask(task(1, <<"a">>))>>)>>>>),
          JObj(<<<<"dayType", JNum(0)>>, <<"calendarRaw", JNum(5)>>,
                 <<"tasks", JStr(<<"x">>)>>, <<"daySummary", JBool(TRUE)>>>>),
          StringifyData("admin", <<>>,
                        <<task(1, <<"a">>),
                          Spread(task(3, <<"b">>), [reviewStatus |-> "moved"])>>,
                        <<"o", "k">>) }

DeskInit ==
    /\ PageIdle
    /\ TimeIdle
    /\ LabelIdle
    /\ dayType = "workday"
    /\ now = Null
    /\ clock \in ClockTimes
    /\ quickTask = <<>>
    /\ daySummary = <<>>
    /\ reminderTimersRef = <<>>
    /\ storage \in StoredItems
    /\ overloadMessage = <<>>
    /\ savedTasks = <<>>
    /\ fired = <<>>
    /\ lastEvent = <<"none", FALSE>>
    /\ steps = 0
    /\ phase = "input"

\* the first commit: the effects run in the order of the source over the
\* state of the first render, then the page renders what the load effect set
Mount ==
    /\ phase = "input"
    /\ LET first  == [dayType |-> dayType, calendarRaw |-> calendarRaw,
                      tasks |-> tasks, daySummary |-> daySummary]
           loaded == LoadEffect(storage, first)
       IN  /\ dayType' = loaded.dayType
           /\ calendarRaw' = loaded.calendarRaw
           /\ tasks' = loaded.tasks
           /\ daySummary' = loaded.daySummary
           /\ now' = clock
           /\ IF RenderThrows(loaded.dayType)
              THEN /\ phase' = "failed"
                   /\ storage' = StringifyData(first.dayType, first.calendarRaw,
                                               first.tasks, first.daySummary)
                   /\ savedTasks' = <<first.tasks>>
                   /\ UNCHANGED <<workStartMinutes, workEndMinutes, events,
                                  freeSlots, planBlocks, unscheduled,
                                  overloadMessage, reminderTimersRef>>
              ELSE /\ phase' = "done"
                   /\ DayTypeEffect
                   /\ AutoParseEffect
                   /\ SaveEffect
                   /\ reminderTimersRef' = ReminderEffect(reminderTimersRef, planBlocks', now')
                   /\ Render
    /\ fired' = <<>>
    /\ lastEvent' = <<"mount", FALSE>>
    /\ UNCHANGED <<lineSrc, quickTask, timeVars, labelVars, steps, clock>>

\* a user event on the page at rest
UserEvent(name) ==
    /\ phase = "done"
    /\ clock' = clock
    /\ steps < MaxSteps
    /\ steps' = steps + 1
    /\ lastEvent' = <<name, planBlocks # <<>>>>
    /\ fired' = <<>>

\* the day type select, whose change event comes with another option than
\* the one shown: setDayType(e.target.value)
SelectDayType ==
    /\ UserEvent("setDayType")
    /\ UNCHANGED <<calendarRaw, lineSrc, tasks, quickTask, daySummary, now,
                   timeVars, labelVars, phase>>
    /\ \E d \in DayTypes \ {dayType} : dayType' = d
    /\ DayTypeEffect
    /\ AutoParseEffect
    /\ reminderTimersRef' = ReminderEffect(reminderTimersRef, planBlocks', now)
    /\ SaveEffect
    /\ Render

\* the calendar textarea: setCalendarRaw(e.target.value)
EditCalendar ==
    /\ UserEvent("setCalendarRaw")
    /\ \E text \in DeskCalendars : calendarRaw' = text
    /\ UNCHANGED <<lineSrc, workStartMinutes, workEndMinutes, tasks, planBlocks,
                   unscheduled, dayType, now, quickTask, daySummary,
                   reminderTimersRef, timeVars, labelVars, phase>>
    /\ AutoParseEffect
    /\ SaveEffect
    /\ Render

\* the quick capture input: setQuickTask(e.target.value)
TypeQuickTask ==
    /\ UserEvent("setQuickTask")
    /\ \E text \in DeskQuickTasks : quickTask' = text
    /\ UNCHANGED <<pageVars, timeVars, labelVars, phase, dayType, now, daySummary,
                   reminderTimersRef, storage, overloadMessage, savedTasks>>

\* the summary textarea: setDaySummary(e.target.value)
EditDaySummary ==
    /\ UserEvent("setDaySummary")
    /\ \E text \in DeskSummaries : daySummary' = text
    /\ UNCHANGED <<pageVars, timeVars, labelVars, phase, dayType, now, quickTask,
                   reminderTimersRef, overloadMessage>>
    /\ SaveEffect

\* a handler that sets the tasks and plans them again
TaskEditRebuilds(name, next) ==
    /\ UserEvent(name)
    /\ tasks' = next
    /\ planBlocks' = buildPlan(freeSlots, next).blocks
    /\ unscheduled' = buildPlan(freeSlots, next).unscheduled
    /\ UNCHANGED <<calendarRaw, lineSrc, workStartMinutes, workEndMinutes, events,
                   freeSlots, timeVars, labelVars, phase, dayType, now, daySummary,
                   reminderTimersRef, overloadMessage>>
    /\ SaveEffect

\* a handler that sets the tasks and nothing else
TaskEdit(name, next) ==
    /\ UserEvent(name)
    /\ tasks' = next
    /\ UNCHANGED <<calendarRaw, lineSrc, workStartMinutes, workEndMinutes, events,
                   freeSlots, planBlocks, unscheduled, timeVars, labelVars, phase,
                   dayType, now, daySummary, reminderTimersRef, overloadMessage>>
    /\ SaveEffect

\* the updaters that the task handlers give to setTasks
QuickTaskAddedIdByLength(prev, text) ==
    LET title == Trim(text)
    IN  IF title = <<>> THEN prev
        ELSE Append(prev,
               [id |-> Len(prev) + 1,
                title |-> title, include |-> TRUE, durationMinutes |-> 30,
                isImportant |-> FALSE, context |-> "other"])

\* handleAddQuickTask, which returns at once when the trimmed text is empty
QuickTaskAdded(prev, text) ==
    LET title == Trim(text)
    IN  IF title = <<>> THEN prev
        ELSE Append(prev,
               [id |-> IF prev # <<>> THEN prev[Len(prev)].id + 1 ELSE 1,
                title |-> title, include |-> TRUE, durationMinutes |-> 30,
                isImportant |-> FALSE, context |-> "other"])

\* prev.map((t) => ({ ...t, ...changes })), whatever the id
ChangedInAll(prev, id, changes) ==
    [i \in 1..Len(prev) |-> Spread(prev[i], changes)]

\* prev.map((t) => (t.id === id ? { ...t, ...changes } : t))
ChangedIn(prev, id, changes) ==
    [i \in 1..Len(prev) |->
        IF prev[i].id = id THEN Spread(prev[i], changes) ELSE prev[i]]

IncludeToggled(prev, id) ==
    [i \in 1..Len(prev) |->
        IF prev[i].id = id
        THEN Spread(prev[i], [include |-> ~prev[i].include])
        ELSE prev[i]]

ImportantToggled(prev, id) ==
    [i \in 1..Len(prev) |->
        IF prev[i].id = id
        THEN Spread(prev[i], [isImportant |-> ~prev[i].isImportant])
        ELSE prev[i]]

handleAddQuickTask ==
    /\ Trim(quickTask) # <<>>
    /\ Len(tasks) < MaxTasks
    /\ TaskEdit("handleAddQuickTask", QuickTaskAdded(tasks, quickTask))
    /\ quickTask' = <<>>

handleToggleTaskInclude ==
    \E j \in 1..Len(tasks) :
        /\ TaskEdit("handleToggleTaskInclude", IncludeToggled(tasks, tasks[j].id))
        /\ UNCHANGED quickTask

handleToggleTaskImportant ==
    \E j \in 1..Len(tasks) :
        /\ TaskEdit("handleToggleTaskImportant", ImportantToggled(tasks, tasks[j].id))
        /\ UNCHANGED quickTask

handleTaskDurationChange ==
    \E j \in 1..Len(tasks), minutes \in DeskDurations :
        /\ TaskEdit("handleTaskDurationChange",
              ChangedIn(tasks, tasks[j].id, [durationMinutes |-> minutes]))
        /\ UNCHANGED quickTask

handleTaskContextChange ==
    \E j \in 1..Len(tasks), ctx \in DeskContexts :
        /\ TaskEdit("handleTaskContextChange",
              ChangedIn(tasks, tasks[j].id, [context |-> ctx]))
        /\ UNCHANGED quickTask

handleTaskReviewChange ==
    \E j \in 1..Len(tasks), changes \in DeskReviewChanges :
        /\ TaskEdit("handleTaskReviewChange", ChangedIn(tasks, tasks[j].id, changes))
        /\ UNCHANGED quickTask

handleBuildPlan ==
    /\ UserEvent("handleBuildPlan")
    /\ LET plan == buildPlan(freeSlots, tasks)
       IN  /\ planBlocks' = plan.blocks
           /\ unscheduled' = plan.unscheduled
    /\ reminderTimersRef' = ReminderEffect(reminderTimersRef, planBlocks', now)
    /\ UNCHANGED <<calendarRaw, lineSrc, workStartMinutes, workEndMinutes, events,
                   tasks, timeVars, labelVars, phase, dayType, now, quickTask,
                   daySummary, storage, savedTasks>>
    /\ Render

handleParseDayClick ==
    /\ UserEvent("handleParseDayClick")
    /\ planBlocks' = <<>>
    /\ unscheduled' = <<>>
    /\ reminderTimersRef' = ReminderEffect(reminderTimersRef, planBlocks', now)
    /\ UNCHANGED <<calendarRaw, lineSrc, workStartMinutes, workEndMinutes, events,
                   tasks, timeVars, labelVars, phase, dayType, now, quickTask,
                   daySummary, storage, savedTasks>>
    /\ Render

\* handleResetDay without setDayType("workday")
handleResetDayKeepsDayType ==
    /\ UserEvent("handleResetDay")
    /\ calendarRaw' = <<>>
    /\ tasks' = <<>>
    /\ quickTask' = <<>>
    /\ daySummary' = <<>>
    /\ planBlocks' = <<>>
    /\ unscheduled' = <<>>
    /\ reminderTimersRef' = ReminderEffect(reminderTimersRef, planBlocks', now)
    /\ UNCHANGED <<lineSrc, timeVars, labelVars, phase, now, dayType,
                   workStartMinutes, workEndMinutes>>
    /\ AutoParseEffect
    /\ SaveEffect
    /\ Render

\* the item is removed, and the save effect that follows the new state
\* writes it again
handleResetDay ==
    /\ UserEvent("handleResetDay")
    /\ calendarRaw' = <<>>
    /\ tasks' = <<>>
    /\ quickTask' = <<>>
    /\ daySummary' = <<>>
    /\ dayType' = "workday"
    /\ DayTypeEffect
    /\ AutoParseEffect
    /\ reminderTimersRef' = ReminderEffect(reminderTimersRef, planBlocks', now)
    /\ UNCHANGED <<lineSrc, timeVars, labelVars, phase, now>>
    /\ SaveEffect
    /\ Render

\* a minute of the browser's time begins.  The interval runs every 30
\* seconds, so the pointer is never more than a minute behind
TimePasses ==
    /\ phase = "done"
    /\ clock = now
    /\ clock + 1 \in ClockTimes
    /\ clock' = clock + 1
    /\ fired' = <<>>
    /\ lastEvent' = <<"timePasses", planBlocks # <<>>>>
    /\ UNCHANGED <<pageVars, timeVars, labelVars, phase, dayType, now, quickTask,
                   daySummary, reminderTimersRef, storage, overloadMessage,
                   savedTasks, steps>>

\* the interval of the clock effect: setNow(new Date())
Tick ==
    /\ phase = "done"
    /\ clock > now
    /\ now' = clock
    /\ reminderTimersRef' = ReminderEffect(reminderTimersRef, planBlocks, now')
    /\ fired' = <<>>
    /\ lastEvent' = <<"setNow", planBlocks # <<>>>>
    /\ UNCHANGED <<pageVars, timeVars, labelVars, phase, dayType, quickTask,
                   daySummary, storage, overloadMessage, savedTasks, steps, clock>>

\* the callback of a pending timer, not before the time it was set for:
\* the reminder of its block is shown
FireReminder ==
    /\ phase = "done"
    /\ \E j \in 1..Len(reminderTimersRef) :
          /\ reminderTimersRef[j].at <= clock
          /\ fired' = <<reminderTimersRef[j].block>>
          /\ reminderTimersRef' = SubSeq(reminderTimersRef, 1, j - 1)
                                  \o SubSeq(reminderTimersRef, j + 1, Len(reminderTimersRef))
    /\ lastEvent' = <<"setTimeout", planBlocks # <<>>>>
    /\ UNCHANGED <<pageVars, timeVars, labelVars, phase, dayType, now, quickTask,
                   daySummary, storage, overloadMessage, savedTasks, steps, clock>>

\* the browser loads the page again: the state is constructed anew and the
\* item stays
Reload ==
    /\ phase \in {"done", "failed"}
    /\ steps < MaxSteps
    /\ steps' = steps + 1
    /\ phase' = "input"
    /\ calendarRaw' = <<>>
    /\ workStartMinutes' = DAY_TYPE_CONFIG["workday"].startMinutes
    /\ workEndMinutes' = DAY_TYPE_CONFIG["workday"].endMinutes
    /\ events' = <<>>
    /\ freeSlots' = <<>>
    /\ tasks' = <<>>
    /\ planBlocks' = <<>>
    /\ unscheduled' = <<>>
    /\ dayType' = "workday"
    /\ now' = Null
    /\ quickTask' = <<>>
    /\ daySummary' = <<>>
    /\ reminderTimersRef' = <<>>
    /\ overloadMessage' = <<>>
    /\ fired' = <<>>
    /\ lastEvent' = <<"reload", planBlocks # <<>>>>
    /\ UNCHANGED <<lineSrc, timeVars, labelVars, storage, savedTasks, clock>>

DeskNext ==
    \/ Mount
    \/ SelectDayType
    \/ EditCalendar
    \/ TypeQuickTask
    \/ EditDaySummary
    \/ handleAddQuickTask
    \/ handleToggleTaskInclude
    \/ handleToggleTaskImportant
    \/ handleTaskDurationChange
    \/ handleTaskContextChange
    \/ handleTaskReviewChange
    \/ handleBuildPlan
    \/ handleParseDayClick
    \/ handleResetDay
    \/ TimePasses
    \/ Tick
    \/ FireReminder
    \/ Reload

SpecDesk == DeskInit /\ [][DeskNext]_vars

(***************************************************************************)
(* Claims about the page                                                   *)
(***************************************************************************)
\* the work window of each day type, as stated
StatedWindow(d) ==
    CASE d = "workday"  -> <<540, 1020>>
      [] d = "admin"    -> <<600, 1080>>
      [] d = "creative" -> <<660, 1140>>
      [] d = "light"    -> <<540, 900>>

\* C15: a step that changes the day type to one of the four profiles leaves
\* the work window at that profile's start and end (540-1020 workday,
\* 600-1080 admin, 660-1140 creative, 540-900 light) and leaves the planned
\* blocks and the unscheduled list empty, whatever plan stood before.
C15_DayTypeReplacesWindow ==
    [][(dayType' # dayType /\ dayType' \in DayTypes) =>
          /\ <<workStartMinutes', workEndMinutes'>> = StatedWindow(dayType')
          /\ planBlocks' = <<>>
          /\ unscheduled' = <<>>]_vars

\* the day type was changed while a plan stood
C15_Witness ==
    /\ phase = "done"
    /\ lastEvent = <<"setDayType", TRUE>>
    /\ dayType = "light"
    /\ planBlocks = <<>>

\* the handlers that edit the tasks
TaskHandlers ==
    {"handleAddQuickTask", "handleToggleTaskInclude", "handleToggleTaskImportant",
     "handleTaskDurationChange", "handleTaskContextChange", "handleTaskReviewChange"}

\* C16: a task edit (add, toggle include, toggle important, change of
\* duration, context, review status or note) leaves the planned blocks and
\* the unscheduled list as they were.
C16_TaskEditsKeepPlan ==
    [][(steps' = steps + 1 /\ lastEvent'[1] \in TaskHandlers) =>
          /\ planBlocks' = planBlocks
          /\ unscheduled' = unscheduled]_vars

\* a task was starred after the plan was built, and its block is as it was
C16_Witness ==
    /\ phase = "done"
    /\ lastEvent = <<"handleToggleTaskImportant", TRUE>>
    /\ \E j \in 1..Len(planBlocks), k \in 1..Len(tasks) :
          /\ planBlocks[j].taskTitle = tasks[k].title
          /\ tasks[k].isImportant
          /\ ~planBlocks[j].isImportant

\* the steps after which the reminder effect has run
ReminderEvents ==
    {"mount", "handleBuildPlan", "handleParseDayClick", "handleResetDay",
     "setDayType", "setNow"}

\* the important blocks of the plan whose reminder is after the pointer
DueBlocks ==
    {planBlocks[j] : j \in {i \in 1..Len(planBlocks) :
                               /\ planBlocks[i].isImportant
                               /\ planBlocks[i].startMinutes - 5 > now}}

\* C17: every pending timer is the timer of an important block of the plan
\* that stands, set to 5 minutes before its start and after the time
\* pointer; once the reminder effect has run there is exactly one for each
\* such block; and a reminder that fires is of a block of the plan.
C17_TimersMatchPlan ==
    phase = "done" =>
        LET pending == {reminderTimersRef[k] : k \in 1..Len(reminderTimersRef)}
        IN  /\ \A tm \in pending : tm.block \in DueBlocks /\ tm.at = tm.block.startMinutes - 5
            /\ Cardinality(pending) = Len(reminderTimersRef)
            /\ lastEvent[1] \in ReminderEvents =>
                  {tm.block : tm \in pending} = DueBlocks
            /\ \A j \in 1..Len(fired) :
                  \E i \in 1..Len(planBlocks) : planBlocks[i] = fired[j]

\* after a tick one reminder is still to come and another is past
C17_Witness ==
    /\ phase = "done"
    /\ lastEvent[1] = "setNow"
    /\ reminderTimersRef # <<>>
    /\ \E j \in 1..Len(planBlocks) :
          planBlocks[j].isImportant /\ planBlocks[j] \notin DueBlocks

\* C18: the tasks that the page holds after it is loaded again are the tasks
\* of the last save, field for field, a task having reviewStatus or
\* reviewNote exactly when it had it at the save.
C18_TasksRoundTrip ==
    [][(phase = "input" /\ phase' = "done" /\ savedTasks # <<>>) =>
          tasks' = savedTasks[1]]_vars

\* the page was loaded again with a task that has a review status and one
\* that has none
C18_Witness ==
    /\ phase = "done"
    /\ lastEvent[1] = "mount"
    /\ steps > 0
    /\ \E j \in 1..Len(tasks) : "reviewStatus" \in DOMAIN tasks[j]
    /\ \E j \in 1..Len(tasks) : "reviewStatus" \notin DOMAIN tasks[j]

\* C19: whatever item the page finds, it does not fail, its day type is one
\* of the four profiles and its work window is the window of a profile.
C19_CorruptRecordRecovered ==
    /\ phase # "failed"
    /\ phase = "done" =>
          /\ dayType \in DayTypes
          /\ \E d \in DayTypes :
                <<workStartMinutes, workEndMinutes>> = StatedWindow(d)

(***************************************************************************)
(* The shape of the plan                                                   *)
(***************************************************************************)
\* the place in the registry of the task of that title
TaskIndex(title) == CHOOSE i \in 1..Len(tasks) : tasks[i].title = title

\* C23: every block has start < end and lies inside one free slot, and the
\* blocks follow one another in time and by task: a block ends at or before
\* the start of every later block, and a later block is of the same or a
\* later task.
C23_BlocksOrderedInSlots ==
    phase = "done" =>
        /\ \A j \in 1..Len(planBlocks) :
              /\ planBlocks[j].startMinutes < planBlocks[j].endMinutes
              /\ \E k \in 1..Len(freeSlots) :
                    /\ freeSlots[k].startMinutes <= planBlocks[j].startMinutes
                    /\ planBlocks[j].endMinutes <= freeSlots[k].endMinutes
        /\ \A i, j \in 1..Len(planBlocks) :
              i < j =>
                 /\ planBlocks[i].endMinutes <= planBlocks[j].startMinutes
                 /\ TaskIndex(planBlocks[i].taskTitle) <= TaskIndex(planBlocks[j].taskTitle)

\* two tasks were planned over two slots, the second after the first
C23_Witness ==
    /\ phase = "done"
    /\ Len(freeSlots) = 2
    /\ Len(planBlocks) = 3
    /\ planBlocks[1].taskTitle # planBlocks[3].taskTitle

\* the state of buildPlan before the i-th task
BeforeTask(i) == PlanLoop(freeSlots, PlanStart(freeSlots), SubSeq(tasks, 1, i - 1))

\* the i-th task is to be placed and is as long as what is left of the
\* current slot
ExactFit(i) ==
    LET before == BeforeTask(i)
    IN  /\ tasks[i].include
        /\ tasks[i].durationMinutes > 0
        /\ before.slotIndex <= Len(freeSlots)
        /\ before.slotCursor < freeSlots[before.slotIndex].endMinutes
        /\ tasks[i].durationMinutes
              = freeSlots[before.slotIndex].endMinutes - before.slotCursor

\* C24: a task as long as what is left of the current slot gets one block
\* that ends at the end of that slot; no block is of length zero; and the
\* block that follows, if any, starts at the start of the next free slot.
C24_ExactFitEndsAtBoundary ==
    phase = "done" =>
        /\ \A j \in 1..Len(planBlocks) :
              planBlocks[j].startMinutes # planBlocks[j].endMinutes
        /\ \A i \in 1..Len(tasks) :
              ExactFit(i) =>
                 LET before == BeforeTask(i)
                     k      == before.slotIndex
                     n      == Len(before.blocks) + 1
                 IN  /\ Spans(BlocksOf(planBlocks, tasks[i].title))
                           = <<<<before.slotCursor, freeSlots[k].endMinutes>>>>
                     /\ planBlocks[n].taskTitle = tasks[i].title
                     /\ n < Len(planBlocks) =>
                           /\ k < Len(freeSlots)
                           /\ planBlocks[n + 1].startMinutes = freeSlots[k + 1].startMinutes
                           /\ planBlocks[n + 1].taskTitle # tasks[i].title

\* a task of 30 minutes filled the slot {0,30} and the next task starts at 60
C24_Witness ==
    /\ phase = "done"
    /\ freeSlots = <<FreeSlot(0, 30), FreeSlot(60, 90)>>
    /\ Len(tasks) >= 2
    /\ ExactFit(1)
    /\ Len(planBlocks) >= 2
    /\ planBlocks[2].startMinutes = 60

\* the minutes that the intervals cover
MinutesOf(xs) ==
    {m \in 0..workEndMinutes :
        \E j \in 1..Len(xs) : xs[j].startMinutes <= m /\ m < xs[j].endMinutes}

RECURSIVE TotalDuration(_)
TotalDuration(ts) ==
    IF ts = <<>> THEN 0
    ELSE (IF Skipped(Head(ts)) THEN 0 ELSE Head(ts).durationMinutes)
         + TotalDuration(Tail(ts))

\* C25: the blocks cover the earliest minutes of the free slots and no
\* minute twice; the planned minutes are the lesser of the free minutes and
\* the durations of the included tasks of positive duration; and the blocks
\* of a task that is placed in full add up to its duration.
C25_GreedyNoGaps ==
    phase = "done" =>
        LET planned == MinutesOf(planBlocks)
            free    == MinutesOf(freeSlots)
        IN  /\ planned \subseteq free
            /\ \A m \in planned : \A f \in free \ planned : m < f
            /\ Cardinality(planned) = TotalLength(planBlocks)
            /\ TotalLength(planBlocks)
                  = Min(TotalLength(freeSlots), TotalDuration(tasks))
            /\ \A i \in 1..Len(tasks) :
                  (/\ ~Skipped(tasks[i])
                   /\ \A j \in 1..Len(unscheduled) : unscheduled[j] # tasks[i]) =>
                     TotalLength(BlocksOf(planBlocks, tasks[i].title))
                        = tasks[i].durationMinutes

\* the tasks were longer than the free time, which the plan fills
C25_Witness ==
    /\ phase = "done"
    /\ Len(freeSlots) = 2
    /\ TotalDuration(tasks) > TotalLength(freeSlots)
    /\ TotalLength(planBlocks) = TotalLength(freeSlots)
    /\ Len(unscheduled) = 1

(***************************************************************************)
(* The start of the page, commit by commit                                 *)
(***************************************************************************)
\* the first commit: the effects run in the order of the source over the
\* state of the first render.  The load effect queues what it read, and the
\* save effect writes the state of the first render.
FirstCommit ==
    /\ phase = "input"
    /\ LET first  == [dayType |-> dayType, calendarRaw |-> calendarRaw,
                      tasks |-> tasks, daySummary |-> daySummary]
           loaded == LoadEffect(storage, first)
       IN  /\ dayType' = loaded.dayType
           /\ calendarRaw' = loaded.calendarRaw
           /\ tasks' = loaded.tasks
           /\ daySummary' = loaded.daySummary
           /\ workStartMinutes' = DAY_TYPE_CONFIG[first.dayType].startMinutes
           /\ workEndMinutes' = DAY_TYPE_CONFIG[first.dayType].endMinutes
           /\ planBlocks' = <<>>
           /\ unscheduled' = <<>>
           /\ now' = clock
           /\ events' = parseEvents(first.calendarRaw, workStartMinutes, workEndMinutes)
           /\ storage' = StringifyData(first.dayType, first.calendarRaw,
                                       first.tasks, first.daySummary)
           /\ savedTasks' = <<first.tasks>>
           /\ reminderTimersRef' = ReminderEffect(reminderTimersRef, planBlocks, now)
    /\ phase' = "loading"
    /\ fired' = <<>>
    /\ lastEvent' = <<"mount", FALSE>>
    /\ UNCHANGED <<lineSrc, quickTask, timeVars, labelVars, steps, clock>>
    /\ Render

\* the second commit: the page renders what the load effect set, and the
\* effects run over it
SecondCommit ==
    /\ phase = "loading"
    /\ UNCHANGED <<dayType, calendarRaw, tasks, daySummary, now, lineSrc,
                   quickTask, timeVars, labelVars, steps, clock, fired, lastEvent>>
    /\ IF RenderThrows(dayType)
       THEN /\ phase' = "failed"
            /\ UNCHANGED <<workStartMinutes, workEndMinutes, events, freeSlots,
                           planBlocks, unscheduled, overloadMessage,
                           reminderTimersRef, storage, savedTasks>>
       ELSE /\ phase' = "done"
            /\ DayTypeEffect
            /\ AutoParseEffect
            /\ SaveEffect
            /\ reminderTimersRef' = ReminderEffect(reminderTimersRef, planBlocks', now')
            /\ Render

\* the page starts, is edited and is opened again on what it saved
StartupNext ==
    \/ FirstCommit
    \/ SecondCommit
    \/ SelectDayType
    \/ EditDaySummary
    \/ Reload

SpecStartup == DeskInit /\ [][StartupNext]_vars

\* C29: while the page starts, once the load effect has read a record that
\* differs from the default state, the item is not the default state.
C29_RecordKeptDuringStartup ==
    (/\ phase = "loading"
     /\ \/ dayType # "workday"
        \/ calendarRaw # <<>>
        \/ tasks # <<>>
        \/ daySummary # <<>>) =>
        storage # StringifyData("workday", <<>>, <<>>, <<>>)

(***************************************************************************)
(* Claims about the registry, the derived values and the reminders         *)
(***************************************************************************)
\* the ids of the tasks, in registry order
IdsOf(ts) == [i \in 1..Len(ts) |-> ts[i].id]

\* texts that trim to nothing
BlankTexts == {<<>>, <<" ">>, <<" ", "\t", " ">>, <<"\n">>}

\* C21: the ids of the registry increase strictly in registry order; a quick
\* capture adds its task at the end, with the trimmed title, and leaves the
\* tasks before it in place; every other step but Reset day keeps the ids
\* and their order; a quick capture of a blank text adds nothing.
C21_IdsIncreaseInOrder ==
    [][phase' = "done" =>
          /\ \A i, j \in 1..Len(tasks') : i < j => tasks'[i].id < tasks'[j].id
          /\ \A text \in BlankTexts : QuickTaskAdded(tasks', text) = tasks'
          /\ (phase = "done" /\ lastEvent'[1] = "handleAddQuickTask") =>
                /\ Len(tasks') = Len(tasks) + 1
                /\ SubSeq(tasks', 1, Len(tasks)) = tasks
                /\ tasks'[Len(tasks')].title = Trim(quickTask)
          /\ (phase = "done" /\ lastEvent'[1] \notin {"handleAddQuickTask", "handleResetDay"}) =>
                IdsOf(tasks') = IdsOf(tasks)]_vars

\* a third task was added after two with the ids 1 and 3
C21_Witness ==
    /\ phase = "done"
    /\ lastEvent[1] = "handleAddQuickTask"
    /\ IdsOf(tasks) = <<1, 3, 4>>

\* next is prev but for the named fields of the tasks of that id
OnlyChanged(prev, next, id, fields) ==
    /\ Len(next) = Len(prev)
    /\ \A i \in 1..Len(prev) :
          IF prev[i].id = id
          THEN /\ DOMAIN next[i] = DOMAIN prev[i] \cup fields
               /\ \A key \in DOMAIN prev[i] \ fields : next[i][key] = prev[i][key]
          ELSE next[i] = prev[i]

\* the fields that each update handler names
NamedFields(handler) ==
    CASE handler = "handleToggleTaskInclude" -> {{"include"}}
      [] handler = "handleToggleTaskImportant" -> {{"isImportant"}}
      [] handler = "handleTaskDurationChange" -> {{"durationMinutes"}}
      [] handler = "handleTaskContextChange" -> {{"context"}}
      [] handler = "handleTaskReviewChange" -> {{"reviewStatus"}, {"reviewNote"}}

UpdateHandlers == TaskHandlers \ {"handleAddQuickTask"}

\* C22: an update with id X changes the named field of the task of id X and
\* nothing else in the registry, and changes nothing when no task has the
\* id X; a step of an update handler changes the named field of one task at
\* most; and the registry loses tasks by Reset day alone, which empties it.
C22_UpdatesChangeOneField ==
    [][(phase = "done" /\ phase' = "done") =>
          /\ \A id \in {tasks[i].id : i \in 1..Len(tasks)} \cup {0} :
                /\ OnlyChanged(tasks, IncludeToggled(tasks, id), id, {"include"})
                /\ OnlyChanged(tasks, ImportantToggled(tasks, id), id, {"isImportant"})
                /\ \A i \in 1..Len(tasks) :
                      tasks[i].id = id =>
                         /\ IncludeToggled(tasks, id)[i].include = ~tasks[i].include
                         /\ ImportantToggled(tasks, id)[i].isImportant = ~tasks[i].isImportant
                /\ \A changes \in {[durationMinutes |-> 15], [context |-> "calls"],
                                   [reviewStatus |-> "delayed"], [reviewNote |-> <<"n">>]} :
                      /\ OnlyChanged(tasks, ChangedIn(tasks, id, changes), id, DOMAIN changes)
                      /\ \A i \in 1..Len(tasks), key \in DOMAIN changes :
                            tasks[i].id = id =>
                               ChangedIn(tasks, id, changes)[i][key] = changes[key]
          /\ lastEvent'[1] \in UpdateHandlers =>
                \E id \in {tasks[i].id : i \in 1..Len(tasks)} :
                   \E fields \in NamedFields(lastEvent'[1]) :
                      OnlyChanged(tasks, tasks', id, fields)
          /\ Len(tasks') < Len(tasks) =>
                lastEvent'[1] = "handleResetDay" /\ tasks' = <<>>]_vars

\* the second of two tasks was given a review note, the first is as it was
C22_Witness ==
    /\ phase = "done"
    /\ lastEvent[1] = "handleTaskReviewChange"
    /\ Len(tasks) = 2
    /\ "reviewNote" \in DOMAIN tasks[2]
    /\ "reviewNote" \notin DOMAIN tasks[1]

\* C26: at rest the events are parseEvents of the calendar text and the work
\* window, the work window is that of the day type, and the free slots are
\* computeFreeSlots of those events and that window.
C26_DerivedFromCurrentText ==
    phase = "done" =>
        /\ events = parseEvents(calendarRaw, workStartMinutes, workEndMinutes)
        /\ <<workStartMinutes, workEndMinutes>> = StatedWindow(dayType)
        /\ freeSlots = computeFreeSlots(events, workStartMinutes, workEndMinutes)

\* the day type was changed over a calendar text, whose event is now cut to
\* the new window
C26_Witness ==
    /\ phase = "done"
    /\ lastEvent[1] = "setDayType"
    /\ dayType = "admin"
    /\ calendarRaw # <<>>
    /\ Len(events) = 1
    /\ events[1].startMinutes = workStartMinutes

\* C27: at rest every planned block lies inside a free slot, and the planned
\* minutes do not exceed the free minutes.
C27_BlocksInsideFreeSlots ==
    phase = "done" =>
        /\ \A j \in 1..Len(planBlocks) :
              \E k \in 1..Len(freeSlots) :
                 /\ freeSlots[k].startMinutes <= planBlocks[j].startMinutes
                 /\ planBlocks[j].endMinutes <= freeSlots[k].endMinutes
        /\ TotalLength(planBlocks) <= TotalLength(freeSlots)

\* C28: once the reminder effect has run, every pending timer is of a block
\* whose reminder time is still to come in the browser's time.
C28_TimersOnlyForUnreachedTimes ==
    (phase = "done" /\ lastEvent[1] \in ReminderEvents) =>
        \A k \in 1..Len(reminderTimersRef) : reminderTimersRef[k].at > clock

\* C30: Reset day leaves the page as it started: no calendar text, task,
\* event, block, unscheduled task or summary, the day type workday with the
\* window 540-1020, the one free slot {540,1020} and no pending timer; and
\* the task added next gets the id 1.
C30_ResetRestoresInitialState ==
    [][lastEvent'[1] = "handleResetDay" =>
          /\ calendarRaw' = <<>>
          /\ tasks' = <<>>
          /\ events' = <<>>
          /\ planBlocks' = <<>>
          /\ unscheduled' = <<>>
          /\ daySummary' = <<>>
          /\ dayType' = "workday"
          /\ workStartMinutes' = 540
          /\ workEndMinutes' = 1020
          /\ freeSlots' = <<FreeSlot(540, 1020)>>
          /\ reminderTimersRef' = <<>>
          /\ IdsOf(QuickTaskAdded(tasks', <<"a">>)) = <<1>>]_vars

\* the day was reset while a plan stood on an admin day
C30_Witness ==
    /\ phase = "done"
    /\ lastEvent = <<"handleResetDay", TRUE>>
    /\ dayType = "workday"
    /\ tasks = <<>>

====
